---- MODULE Spec2Model ----
(***************************************************************************)
(* Model of the MultiQC_neuroimaging plugin modules.                       *)
(*                                                                         *)
(* One run constructs one module (MultiqcModule.__init__) against the      *)
(* host's global config and the files the host found for it.  The state    *)
(* is the config, the files still to be parsed, the per-sample dictionary  *)
(* the constructor builds, and what the constructor handed to the host:    *)
(* general-statistics columns, report sections and data files.             *)
(*                                                                         *)
(* Text is modelled after tokenisation: a file body is a sequence of       *)
(* lines, a line the sequence of its fields (strings).  float()/int() are  *)
(* partial: they are defined on the numeric literals of FloatLit/IntLit    *)
(* and raise ValueError on every other field.  Floating-point numbers are  *)
(* fixed-point integers (value * 10000); percentages and quartiles are     *)
(* exact rationals, so rounding of IEEE doubles is not modelled.           *)
(***************************************************************************)
EXTENDS Integers, Sequences, FiniteSets, TLC

VARIABLES
    module,               \* the module under construction
    single_subject,       \* config.kwargs["single_subject"]
    single_subject_report, \* config.single_subject_report, False if unset
    module_config,        \* getattr(config, <module>, {}): a dict
    sample_names_ignore,  \* config.sample_names_ignore
    config_fp,            \* config.sp[<module>]["fn"], as a Pattern record
    sp,                   \* config.sp as neuroimaging_execution_start sees it
    files,                \* what find_log_files will yield, in order
    pc,                   \* position inside __init__, or of the host
                          \* around the execution_start hook
    searched,             \* find_log_files has been called
    todo,                 \* files found and not yet parsed
    data,                 \* cortical_data / dice_data / sc_data / fd_data /
                          \* samples_bundles / samples_rois
    bundle_metrics,       \* bundle_metrics / roi_metrics
    general_stats,        \* arguments of the general_stats_addcols calls
    sections,             \* arguments of the add_section calls
    data_files,           \* arguments of the write_data_file calls
    nvBundles,            \* the viewer script: the Niivue instance held, 0 for
                          \* undefined, else its index in viewers
    viewers,              \* the Niivue instances constructed so far
    visible,              \* the 'visible' property of each mesh
    activeBundles,        \* the script's set of mesh ids
    bundlesLoaded,        \* the script's flag
    buttons,              \* the children of #bundle-list
    tasks,                \* the activations of the async functions that wait
    dom_loaded,           \* DOMContentLoaded has fired
    selections            \* change events of the file input so far

\* the state of the report page in the browser
browser == <<nvBundles, viewers, visible, activeBundles, bundlesLoaded,
             buttons, tasks, dom_loaded, selections>>

vars == <<module, single_subject, single_subject_report, module_config, sample_names_ignore,
          config_fp, sp, files, pc, searched, todo, data, bundle_metrics,
          general_stats, sections, data_files, browser>>

----------------------------------------------------------------------------
(* Bounds of the model.                                                    *)

MaxFiles == 2        \* files found per run
MaxGroup == 5        \* samples of a group of values in the outlier inputs
MaxBundles == 9      \* bundles of a table in the bundle inputs
MaxSelections == 2   \* change events of the file input
MaxSelected == 2     \* files of one selection

----------------------------------------------------------------------------
(* Python helpers.                                                         *)

EmptyDict == <<>>

\* dict.get(key, default)
Get(d, key, default) == IF key \in DOMAIN d THEN d[key] ELSE default

\* d1.update(d2) seen as a value: d2 wins on shared keys
Update(d1, d2) == d2 @@ d1

Min2(a, b) == IF a <= b THEN a ELSE b

Max2(a, b) == IF a >= b THEN a ELSE b

Range(seq) == {seq[i] : i \in DOMAIN seq}

\* float(): the numeric literals of the model, value * 10000
FloatLit ==
    ("0" :> 0) @@ ("1" :> 10000) @@ ("4" :> 40000) @@ ("9" :> 90000)
    @@ ("0.7234" :> 7234) @@ ("0.75" :> 7500) @@ ("0.8" :> 8000)
    @@ ("0.8593" :> 8593) @@ ("0.9" :> 9000) @@ ("0.95" :> 9500)
    @@ ("0.5" :> 5000) @@ ("2.0" :> 20000) @@ ("2.5" :> 25000)

CanFloat(s) == s \in DOMAIN FloatLit

float(s) == FloatLit[s]

\* int(): accepts integer literals only ("0.5", "2.0" raise ValueError)
IntLit == ("0" :> 0) @@ ("1" :> 1) @@ ("4" :> 4) @@ ("9" :> 9)

CanInt(s) == s \in DOMAIN IntLit

int(s) == IntLit[s]

\* sorted(values) for a sequence of integers
RECURSIVE sorted(_)
sorted(seq) ==
    IF seq = <<>> THEN <<>>
    ELSE LET i == CHOOSE j \in DOMAIN seq : \A k \in DOMAIN seq : seq[j] <= seq[k]
             rest == [k \in 1..(Len(seq) - 1) |-> IF k < i THEN seq[k] ELSE seq[k + 1]]
         IN  <<seq[i]>> \o sorted(rest)

\* list(d.values()) for a dict d, in some iteration order
RECURSIVE Values(_)
Values(d) ==
    IF DOMAIN d = {} THEN <<>>
    ELSE LET k == CHOOSE x \in DOMAIN d : TRUE
         IN  <<d[k]>> \o Values([x \in DOMAIN d \ {k} |-> d[x]])

\* the percentile at the lower of the two closest ranks, not interpolated
Percentile4_lower(values, j) ==
    4 * sorted(values)[(j * (Len(values) - 1)) \div 4 + 1]

\* 4 * np.percentile(values, 25 * j), j = 1 or 3, linear interpolation
\* between the two closest ranks (numpy's default method)
Percentile4(values, j) ==
    LET s == sorted(values)
        pos4 == j * (Len(s) - 1)
        i == pos4 \div 4
        r == pos4 % 4
    IN  IF r = 0 THEN 4 * s[i + 1]
        ELSE (4 - r) * s[i + 1] + r * s[i + 2]

SeqMin(values) == sorted(values)[1]

SeqMax(values) == sorted(values)[Len(values)]

\* line.strip().split("\t") on a line given as its tab-separated fields:
\* strip() removes the leading and trailing whitespace of the line, tabs
\* included, hence the empty and blank fields at both ends; <<>> stands
\* for the line that is blank after strip()
strip_split(fields) ==
    LET keep == {i \in DOMAIN fields : fields[i] \notin {"", " "}}
    IN  IF keep = {} THEN <<>>
        ELSE SubSeq(fields,
                    CHOOSE i \in keep : \A k \in keep : i <= k,
                    CHOOSE i \in keep : \A k \in keep : i >= k)

\* host: BaseMultiqcModule.ignore_samples drops the keys on the ignore list
ignore_samples(d) == [s \in DOMAIN d \ sample_names_ignore |-> d[s]]

\* a percentage count / total * 100 as an exact fraction
Pct(count, total) == [num |-> 100 * count, den |-> total]

ZeroPct == [num |-> 0, den |-> 1]

\* pct <= threshold, pct < threshold for a fraction and an integer
PctLeq(pct, t) == pct.num <= t * pct.den

PctLt(pct, t) == pct.num < t * pct.den

PctEq(p, q) == p.num * q.den = q.num * p.den

----------------------------------------------------------------------------
(* cortical.py                                                             *)

\* region_name.startswith("lh_") / startswith("rh_") on the region names
\* of the model
startswith_lh(region_name) == region_name \in {"lh_a", "lh_b"}

startswith_rh(region_name) == region_name \in {"rh_a"}

\* the dict built from zip(region_names, volumes): a field float() rejects
\* is stored as 0.0
cortical_sample_data(region_names, volumes) ==
    LET n == Min2(Len(region_names), Len(volumes))
        \* a later column of the same name overwrites an earlier one
        last(r) == CHOOSE i \in 1..n :
                      /\ region_names[i] = r
                      /\ \A k \in (i + 1)..n : region_names[k] # r
    IN  [r \in {region_names[i] : i \in 1..n} |->
            IF CanFloat(volumes[last(r)]) THEN float(volumes[last(r)]) ELSE 0]

\* the loop over lines[1:] of parse_cortical_file
RECURSIVE cortical_rows(_, _, _)
cortical_rows(region_names, lines, acc) ==
    IF lines = <<>> THEN acc
    ELSE LET fields == strip_split(Head(lines))
         IN  IF Len(fields) < 2
             THEN cortical_rows(region_names, Tail(lines), acc)
             ELSE cortical_rows(region_names, Tail(lines),
                      (fields[1] :> cortical_sample_data(region_names, Tail(fields)))
                      @@ acc)

parse_cortical_file(f) ==
    LET lines == f.f
    IN  IF Len(lines) < 2 THEN EmptyDict
        ELSE LET headers == strip_split(lines[1])
                 region_names == IF headers = <<>> THEN <<>> ELSE Tail(headers)
             IN  cortical_rows(region_names, Tail(lines), EmptyDict)

\* the merge in which the record of a later file replaces the earlier one
cortical_merge_replacing(cortical_data, parsed) ==
    [s \in DOMAIN cortical_data \cup DOMAIN parsed |->
        IF s \notin DOMAIN parsed THEN cortical_data[s] ELSE parsed[s]]

\* the body of "for f in self.find_log_files(...)": merge one parsed file
cortical_merge(cortical_data, parsed) ==
    [s \in DOMAIN cortical_data \cup DOMAIN parsed |->
        IF s \notin DOMAIN parsed THEN cortical_data[s]
        ELSE IF s \notin DOMAIN cortical_data THEN parsed[s]
        ELSE Update(cortical_data[s], parsed[s])]

\* region_values[region_name] of _calculate_outlier_percentages
cortical_region_values(cortical_data, region_name) ==
    Values([s \in {x \in DOMAIN cortical_data : region_name \in DOMAIN cortical_data[x]}
               |-> cortical_data[s][region_name]])

cortical_regions(cortical_data) ==
    UNION {DOMAIN cortical_data[s] : s \in DOMAIN cortical_data}

\* the bounds with min and max exchanged for small groups
cortical_iqr_bounds_swapped(values) ==
    IF Len(values) < 4
    THEN <<4 * SeqMax(values), 4 * SeqMin(values)>>
    ELSE LET q1 == Percentile4(values, 1)
             q3 == Percentile4(values, 3)
             iqr == q3 - q1
         IN  <<q1 - 3 * iqr, q3 + 3 * iqr>>

\* region_iqr_bounds[region_name], both bounds times 4
cortical_iqr_bounds(values) ==
    IF Len(values) < 4
    THEN <<4 * SeqMin(values), 4 * SeqMax(values)>>
    ELSE LET q1 == Percentile4(values, 1)
             q3 == Percentile4(values, 3)
             iqr == q3 - q1
         IN  <<q1 - 3 * iqr, q3 + 3 * iqr>>

\* the percentages over each sample's own regions instead of all regions
cortical_calculate_outlier_percentages_own_regions(cortical_data) ==
    LET regions == cortical_regions(cortical_data)
        region_iqr_bounds ==
            [r \in regions |-> cortical_iqr_bounds(cortical_region_values(cortical_data, r))]
        outlier_count(s) ==
            Cardinality({r \in DOMAIN cortical_data[s] :
                /\ r \in regions
                /\ \/ 4 * cortical_data[s][r] < region_iqr_bounds[r][1]
                   \/ 4 * cortical_data[s][r] > region_iqr_bounds[r][2]})
    IN  [s \in DOMAIN cortical_data |->
            IF DOMAIN cortical_data[s] # {}
            THEN Pct(outlier_count(s), Cardinality(DOMAIN cortical_data[s]))
            ELSE ZeroPct]

cortical_calculate_outlier_percentages(cortical_data) ==
    LET regions == cortical_regions(cortical_data)
        region_iqr_bounds ==
            [r \in regions |-> cortical_iqr_bounds(cortical_region_values(cortical_data, r))]
        total_regions == Cardinality(regions)
        outlier_count(s) ==
            Cardinality({r \in DOMAIN cortical_data[s] :
                /\ r \in regions
                /\ \/ 4 * cortical_data[s][r] < region_iqr_bounds[r][1]
                   \/ 4 * cortical_data[s][r] > region_iqr_bounds[r][2]})
    IN  [s \in DOMAIN cortical_data |->
            IF total_regions > 0 THEN Pct(outlier_count(s), total_regions)
            ELSE ZeroPct]

\* status_data with "if" in the place of "elif" for the warn group
cortical_status_data_overlapping(sample_percentages, warn_threshold, fail_threshold) ==
    [pass |-> {s \in DOMAIN sample_percentages :
                  PctLeq(sample_percentages[s], fail_threshold)},
     warn |-> {s \in DOMAIN sample_percentages :
                  PctLeq(sample_percentages[s], warn_threshold)},
     fail |-> {s \in DOMAIN sample_percentages :
                  /\ ~PctLeq(sample_percentages[s], fail_threshold)
                  /\ ~PctLeq(sample_percentages[s], warn_threshold)}]

\* the status rule with the warn bound exclusive
cortical_status_data_exclusive(sample_percentages, warn_threshold, fail_threshold) ==
    [pass |-> {s \in DOMAIN sample_percentages :
                  PctLeq(sample_percentages[s], fail_threshold)},
     warn |-> {s \in DOMAIN sample_percentages :
                  /\ ~PctLeq(sample_percentages[s], fail_threshold)
                  /\ PctLt(sample_percentages[s], warn_threshold)},
     fail |-> {s \in DOMAIN sample_percentages :
                  /\ ~PctLeq(sample_percentages[s], fail_threshold)
                  /\ ~PctLt(sample_percentages[s], warn_threshold)}]

\* status_data of __init__, lists as sets
cortical_status_data(sample_percentages, warn_threshold, fail_threshold) ==
    [pass |-> {s \in DOMAIN sample_percentages :
                  PctLeq(sample_percentages[s], fail_threshold)},
     warn |-> {s \in DOMAIN sample_percentages :
                  /\ ~PctLeq(sample_percentages[s], fail_threshold)
                  /\ PctLeq(sample_percentages[s], warn_threshold)},
     fail |-> {s \in DOMAIN sample_percentages :
                  /\ ~PctLeq(sample_percentages[s], fail_threshold)
                  /\ ~PctLeq(sample_percentages[s], warn_threshold)}]

\* the add_section calls of _add_per_region_plots, one per hemisphere that
\* has regions
cortical_sections(cortical_data, status_data) ==
    LET regions == cortical_regions(cortical_data)
        lh_regions == {r \in regions : startswith_lh(r)}
        rh_regions == {r \in regions : ~startswith_lh(r) /\ startswith_rh(r)}
        plot_data(hemi) ==
            [s \in DOMAIN cortical_data |->
                [r \in hemi \cap DOMAIN cortical_data[s] |-> cortical_data[s][r]]]
        sec(anchor, hemi) ==
            IF DOMAIN cortical_data = {} \/ hemi = {} THEN <<>>
            ELSE <<[anchor |-> anchor, plot |-> plot_data(hemi),
                    statuses |-> status_data]>>
    IN  sec("cortical_lh_volumes", lh_regions) \o sec("cortical_rh_volumes", rh_regions)

----------------------------------------------------------------------------
(* subcortical.py                                                          *)

subcortical_sample_data(region_names, volumes) ==
    LET n == Min2(Len(region_names), Len(volumes))
        last(r) == CHOOSE i \in 1..n :
                      /\ region_names[i] = r
                      /\ \A k \in (i + 1)..n : region_names[k] # r
    IN  [r \in {region_names[i] : i \in 1..n} |->
            IF CanFloat(volumes[last(r)]) THEN float(volumes[last(r)]) ELSE 0]

RECURSIVE subcortical_rows(_, _, _)
subcortical_rows(region_names, lines, acc) ==
    IF lines = <<>> THEN acc
    ELSE LET fields == strip_split(Head(lines))
         IN  IF Len(fields) < 2
             THEN subcortical_rows(region_names, Tail(lines), acc)
             ELSE subcortical_rows(region_names, Tail(lines),
                      (fields[1] :> subcortical_sample_data(region_names, Tail(fields)))
                      @@ acc)

parse_subcortical_file(f) ==
    LET lines == f.f
    IN  IF Len(lines) < 2 THEN EmptyDict
        ELSE LET headers == strip_split(lines[1])
                 region_names == IF headers = <<>> THEN <<>> ELSE Tail(headers)
             IN  subcortical_rows(region_names, Tail(lines), EmptyDict)

subcortical_merge(subcortical_data, parsed) ==
    [s \in DOMAIN subcortical_data \cup DOMAIN parsed |->
        IF s \notin DOMAIN parsed THEN subcortical_data[s]
        ELSE IF s \notin DOMAIN subcortical_data THEN parsed[s]
        ELSE Update(subcortical_data[s], parsed[s])]

subcortical_region_values(subcortical_data, region_name) ==
    Values([s \in {x \in DOMAIN subcortical_data : region_name \in DOMAIN subcortical_data[x]}
               |-> subcortical_data[s][region_name]])

subcortical_regions(subcortical_data) ==
    UNION {DOMAIN subcortical_data[s] : s \in DOMAIN subcortical_data}

\* the bounds at 1 IQR from the quartiles
subcortical_iqr_bounds_narrow(values) ==
    IF Len(values) < 4
    THEN <<4 * SeqMin(values), 4 * SeqMax(values)>>
    ELSE LET q1 == Percentile4(values, 1)
             q3 == Percentile4(values, 3)
             iqr == q3 - q1
         IN  <<q1 - iqr, q3 + iqr>>

subcortical_iqr_bounds(values) ==
    IF Len(values) < 4
    THEN <<4 * SeqMin(values), 4 * SeqMax(values)>>
    ELSE LET q1 == Percentile4(values, 1)
             q3 == Percentile4(values, 3)
             iqr == q3 - q1
         IN  <<q1 - 3 * iqr, q3 + 3 * iqr>>

subcortical_calculate_outlier_percentages(subcortical_data) ==
    LET regions == subcortical_regions(subcortical_data)
        region_iqr_bounds ==
            [r \in regions |->
                subcortical_iqr_bounds(subcortical_region_values(subcortical_data, r))]
        total_regions == Cardinality(regions)
        outlier_count(s) ==
            Cardinality({r \in DOMAIN subcortical_data[s] :
                /\ r \in regions
                /\ \/ 4 * subcortical_data[s][r] < region_iqr_bounds[r][1]
                   \/ 4 * subcortical_data[s][r] > region_iqr_bounds[r][2]})
    IN  [s \in DOMAIN subcortical_data |->
            IF total_regions > 0 THEN Pct(outlier_count(s), total_regions)
            ELSE ZeroPct]

subcortical_status_data(sample_percentages, warn_threshold, fail_threshold) ==
    [pass |-> {s \in DOMAIN sample_percentages :
                  PctLeq(sample_percentages[s], fail_threshold)},
     warn |-> {s \in DOMAIN sample_percentages :
                  /\ ~PctLeq(sample_percentages[s], fail_threshold)
                  /\ PctLeq(sample_percentages[s], warn_threshold)},
     fail |-> {s \in DOMAIN sample_percentages :
                  /\ ~PctLeq(sample_percentages[s], fail_threshold)
                  /\ ~PctLeq(sample_percentages[s], warn_threshold)}]

\* the add_section call of _add_per_region_plots
subcortical_sections(subcortical_data, status_data) ==
    IF DOMAIN subcortical_data = {} THEN <<>>
    ELSE <<[anchor |-> "subcortical_volumes", plot |-> subcortical_data,
            statuses |-> status_data]>>

----------------------------------------------------------------------------
(* File names.  A name is stem + "_" * us + rest and a search pattern is   *)
(* "*" * stars + "_" * us + rest.  Stems and rests neither begin nor end   *)
(* with "_" or "*", and no rest of the model is a suffix of another one,   *)
(* so endswith() is decided by the rests being equal.                      *)

\* re.search(r"(sub-[A-Za-z0-9]+)", filename): the match, or "" for no
\* match, on the stems of the model
SubjectMatch ==
    ("sub-001" :> "sub-001") @@ ("sub-002" :> "sub-002") @@ ("sub-003" :> "sub-003")
    @@ ("sub-004" :> "sub-004") @@ ("sub-005" :> "sub-005") @@ ("sub-006" :> "sub-006")
    @@ ("sub-007" :> "sub-007")
    @@ ("sub-001_ses-01" :> "sub-001") @@ ("sub-001_ses-02" :> "sub-001")
    @@ ("ctrl01" :> "")

\* host: clean_s_name leaves the names of the model unchanged (they carry
\* no extension or path)
clean_s_name(sample_name, f) == sample_name

\* the derivation that wants the underscores of the pattern and no more
suffix_sample_name_exact(f, fp) ==
    LET pattern_suffix == [us |-> fp.us, rest |-> fp.rest]
        nonempty == pattern_suffix.us > 0 \/ pattern_suffix.rest # ""
        endswith == /\ f.fn.rest = pattern_suffix.rest
                    /\ pattern_suffix.us = f.fn.us
    IN  IF nonempty /\ endswith THEN f.fn.stem
        ELSE f.s_name

\* sample-name derivation shared by parse_fd_file and parse_sc_file:
\*   pattern_suffix = config_fp.lstrip("*")
\*   if pattern_suffix and filename.endswith(pattern_suffix):
\*       re.sub(r"_+$", "", filename[: -len(pattern_suffix)])
\*   else: f["s_name"]
suffix_sample_name(f, fp) ==
    LET pattern_suffix == [us |-> fp.us, rest |-> fp.rest]
        nonempty == pattern_suffix.us > 0 \/ pattern_suffix.rest # ""
        endswith == /\ f.fn.rest = pattern_suffix.rest
                    /\ pattern_suffix.us <= f.fn.us
    IN  IF nonempty /\ endswith THEN f.fn.stem
        ELSE f.s_name

\* add_section(..., statuses=None)
NoStatuses == <<>>

----------------------------------------------------------------------------
(* coverage.py                                                             *)

warn_threshold_coverage == 9000

fail_threshold_coverage == 8000

parse_dice_file(f) ==
    LET lines == f.f
    IN  IF Len(lines) < 1 THEN EmptyDict
        ELSE LET match == SubjectMatch[f.fn.stem]
                 sample_name == clean_s_name(IF match # "" THEN match ELSE f.s_name, f)
             IN  \* float(lines[0].strip())
                 IF Len(lines[1]) = 1 /\ CanFloat(lines[1][1])
                 THEN [sample_name |-> sample_name, dice_value |-> float(lines[1][1])]
                 ELSE EmptyDict

\* the status with "<=" in the place of "<" against fail_threshold
coverage_status_inclusive(dice_value, warn_threshold, fail_threshold) ==
    IF dice_value <= fail_threshold THEN "fail"
    ELSE IF dice_value < warn_threshold THEN "warn"
    ELSE "pass"

\* statuses of _add_coverage_stats
coverage_status(dice_value, warn_threshold, fail_threshold) ==
    IF dice_value < fail_threshold THEN "fail"
    ELSE IF dice_value < warn_threshold THEN "warn"
    ELSE "pass"

coverage_status_groups(dice_data, warn_threshold, fail_threshold) ==
    LET statuses == [s \in DOMAIN dice_data |->
                        coverage_status(dice_data[s], warn_threshold, fail_threshold)]
    IN  [pass |-> {s \in DOMAIN statuses : statuses[s] = "pass"},
         warn |-> {s \in DOMAIN statuses : statuses[s] = "warn"},
         fail |-> {s \in DOMAIN statuses : statuses[s] = "fail"}]

----------------------------------------------------------------------------
(* streamline_count.py                                                     *)

iqr_multiplier_default == 3

parse_sc_file(f, fp) ==
    LET lines == f.f
    IN  IF Len(lines) < 1 THEN EmptyDict
        ELSE LET sample_name == clean_s_name(suffix_sample_name(f, fp), f)
             IN  \* int(lines[0].strip())
                 IF Len(lines[1]) = 1 /\ CanInt(lines[1][1])
                 THEN [sample_name |-> sample_name, sc_value |-> int(lines[1][1])]
                 ELSE EmptyDict

\* the bounds with the multiplier 3 whatever is configured
sc_bounds_fixed(sc_data, iqr_multiplier) ==
    LET values == Values(sc_data)
        q1 == Percentile4(values, 1)
        q3 == Percentile4(values, 3)
        iqr == q3 - q1
    IN  <<q1 - 3 * iqr, q3 + 3 * iqr>>

\* <<lower_bound, upper_bound>> of _add_streamline_count_stats, times 4
sc_bounds(sc_data, iqr_multiplier) ==
    LET values == Values(sc_data)
        q1 == Percentile4(values, 1)
        q3 == Percentile4(values, 3)
        iqr == q3 - q1
    IN  <<q1 - iqr_multiplier * iqr, q3 + iqr_multiplier * iqr>>

sc_status_groups(sc_data, iqr_multiplier) ==
    LET b == sc_bounds(sc_data, iqr_multiplier)
        statuses == [s \in DOMAIN sc_data |->
                        IF 4 * sc_data[s] < b[1] \/ 4 * sc_data[s] > b[2]
                        THEN "fail" ELSE "pass"]
    IN  [pass |-> {s \in DOMAIN statuses : statuses[s] = "pass"},
         fail |-> {s \in DOMAIN statuses : statuses[s] = "fail"}]

----------------------------------------------------------------------------
(* framewise_displacement.py                                               *)

warn_threshold_fd == 8000

fail_threshold_fd == 20000

\* the loop that ends at the first line it cannot use
RECURSIVE fd_values_until_bad(_)
fd_values_until_bad(lines) ==
    IF lines = <<>> THEN <<>>
    ELSE LET fields == Head(lines)
         IN  IF Len(fields) >= 2 /\ CanFloat(fields[2])
             THEN <<float(fields[2])>> \o fd_values_until_bad(Tail(lines))
             ELSE <<>>

\* the loop "for line in lines" of parse_fd_file
RECURSIVE fd_values(_)
fd_values(lines) ==
    IF lines = <<>> THEN <<>>
    ELSE LET fields == Head(lines)
         IN  IF Len(fields) >= 2 /\ CanFloat(fields[2])
             THEN <<float(fields[2])>> \o fd_values(Tail(lines))
             ELSE fd_values(Tail(lines))

parse_fd_file(f, fp) ==
    LET lines == f.f
    IN  IF Len(lines) < 1 THEN EmptyDict
        ELSE LET sample_name == clean_s_name(suffix_sample_name(f, fp), f)
                 values == fd_values(lines)
             IN  IF values = <<>> THEN EmptyDict
                 ELSE [sample_name |-> sample_name, values |-> values]

\* the last value in the place of the largest
max_last(values) == values[Len(values)]

\* max(values)
RECURSIVE max(_)
max(values) ==
    IF Len(values) = 1 THEN values[1]
    ELSE Max2(values[1], max(Tail(values)))

\* max_fd_values of _add_multi_subject_plots
fd_max_fd_values(fd_data) ==
    [s \in {x \in DOMAIN fd_data : fd_data[x] # <<>>} |-> max(fd_data[s])]

fd_status(max_fd, warn_threshold, fail_threshold) ==
    IF max_fd < warn_threshold THEN "pass"
    ELSE IF max_fd < fail_threshold THEN "warn"
    ELSE "fail"

fd_status_groups(max_fd_values, warn_threshold, fail_threshold) ==
    LET statuses == [s \in DOMAIN max_fd_values |->
                        fd_status(max_fd_values[s], warn_threshold, fail_threshold)]
    IN  [pass |-> {s \in DOMAIN statuses : statuses[s] = "pass"},
         warn |-> {s \in DOMAIN statuses : statuses[s] = "warn"},
         fail |-> {s \in DOMAIN statuses : statuses[s] = "fail"}]

----------------------------------------------------------------------------
(* csv.DictReader rows, shared by tractometry.py and metricsinroi.py       *)

\* None and "" are both falsy and both strip to "": one value stands for
\* the two
None == ""

\* str.strip() on the fields of the model
strip(s) == IF s = " " THEN "" ELSE s

\* key in row, for row = dict(zip(fieldnames, fields)) padded with None
row_has(fieldnames, key) == \E i \in DOMAIN fieldnames : fieldnames[i] = key

\* row.get(key)
row_get(fieldnames, fields, key) ==
    IF ~row_has(fieldnames, key) THEN None
    ELSE LET i == CHOOSE j \in DOMAIN fieldnames :
                     /\ fieldnames[j] = key
                     /\ \A k \in DOMAIN fieldnames : k > j => fieldnames[k] # key
         IN  IF i <= Len(fields) THEN fields[i] ELSE None

\* the metric values one row contributes to bundle_metrics[bundle][sample]
row_metrics(fieldnames, fields, metric_names) ==
    [m \in {x \in metric_names :
               /\ row_has(fieldnames, x)
               /\ row_get(fieldnames, fields, x) # None
               /\ CanFloat(row_get(fieldnames, fields, x))}
        |-> float(row_get(fieldnames, fields, m))]

\* sample = row_sample if row_sample else (sname or "unknown")
row_sample_name(fieldnames, fields, sname) ==
    LET row_sample == strip(row_get(fieldnames, fields, "sample"))
    IN  IF row_sample # "" THEN row_sample
        ELSE IF sname # None THEN sname ELSE "unknown"

\* bundle = row.get("bundle") or "unnamed" (roi = row.get("roi") or "unnamed")
row_key(fieldnames, fields, key_column) ==
    LET got == row_get(fieldnames, fields, key_column)
    IN  IF got # None THEN got ELSE "unnamed"

\* one iteration of "for row in reader": acc = [sb |-> samples_bundles,
\* bm |-> bundle_metrics], key_column is "bundle" or "roi"
reader_row(acc, fieldnames, fields, sname, key_column, metric_names) ==
    LET sample == row_sample_name(fieldnames, fields, sname)
        bundle == row_key(fieldnames, fields, key_column)
        old_set == IF sample \in DOMAIN acc.sb THEN acc.sb[sample] ELSE {}
        old_b == IF bundle \in DOMAIN acc.bm THEN acc.bm[bundle] ELSE EmptyDict
        old_m == IF sample \in DOMAIN old_b THEN old_b[sample] ELSE EmptyDict
        new_m == Update(old_m, row_metrics(fieldnames, fields, metric_names))
    IN  [sb |-> (sample :> (old_set \cup {bundle})) @@ acc.sb,
         bm |-> (bundle :> ((sample :> new_m) @@ old_b)) @@ acc.bm]

\* DictReader skips blank lines
RECURSIVE reader_rows(_, _, _, _, _, _)
reader_rows(acc, fieldnames, lines, sname, key_column, metric_names) ==
    IF lines = <<>> THEN acc
    ELSE IF Head(lines) = <<>>
    THEN reader_rows(acc, fieldnames, Tail(lines), sname, key_column, metric_names)
    ELSE reader_rows(
             reader_row(acc, fieldnames, Head(lines), sname, key_column, metric_names),
             fieldnames, Tail(lines), sname, key_column, metric_names)

\* the body of "for f in files": the first line is the header
reader_file(acc, f, key_column, metric_names) ==
    IF f.f = <<>> THEN acc
    ELSE reader_rows(acc, Head(f.f), Tail(f.f), f.s_name, key_column, metric_names)

\* plot_data of _add_per_bundle_plots / _add_per_roi_plots for one metric
metric_plot_data(metrics, metric_key) ==
    LET has(b, s) == s \in DOMAIN metrics[b] /\ metric_key \in DOMAIN metrics[b][s]
        samples == {s \in UNION {DOMAIN metrics[b] : b \in DOMAIN metrics} :
                       \E b \in DOMAIN metrics : has(b, s)}
    IN  [s \in samples |->
            [b \in {x \in DOMAIN metrics : has(x, s)} |-> metrics[b][s][metric_key]]]

----------------------------------------------------------------------------
(* tractometry.py                                                          *)

warn_threshold_tractometry == 90

fail_threshold_tractometry == 80

tractometry_metrics == {"fa", "volume", "streamlines_count"}

tractometry_parse(acc, f) == reader_file(acc, f, "bundle", tractometry_metrics)

\* sample_percentages over the bundles of the retained samples only
tractometry_sample_percentages_retained(samples_bundles, metrics) ==
    LET total_bundles ==
            Cardinality(UNION {samples_bundles[s] : s \in DOMAIN samples_bundles})
    IN  [s \in DOMAIN samples_bundles |->
            IF total_bundles > 0
            THEN Pct(Cardinality(samples_bundles[s]), total_bundles)
            ELSE ZeroPct]

\* sample_percentages of __init__
tractometry_sample_percentages(samples_bundles, metrics) ==
    LET total_bundles == Cardinality(DOMAIN metrics)
    IN  [s \in DOMAIN samples_bundles |->
            IF total_bundles > 0
            THEN Pct(Cardinality(samples_bundles[s]), total_bundles)
            ELSE ZeroPct]

\* status_data with "<=" in the place of "<"
tractometry_status_data_inclusive(sample_percentages, warn_threshold, fail_threshold) ==
    [pass |-> {s \in DOMAIN sample_percentages :
                  /\ ~PctLeq(sample_percentages[s], fail_threshold)
                  /\ ~PctLeq(sample_percentages[s], warn_threshold)},
     warn |-> {s \in DOMAIN sample_percentages :
                  /\ ~PctLeq(sample_percentages[s], fail_threshold)
                  /\ PctLeq(sample_percentages[s], warn_threshold)},
     fail |-> {s \in DOMAIN sample_percentages :
                  PctLeq(sample_percentages[s], fail_threshold)}]

tractometry_status_data(sample_percentages, warn_threshold, fail_threshold) ==
    [pass |-> {s \in DOMAIN sample_percentages :
                  /\ ~PctLt(sample_percentages[s], fail_threshold)
                  /\ ~PctLt(sample_percentages[s], warn_threshold)},
     warn |-> {s \in DOMAIN sample_percentages :
                  /\ ~PctLt(sample_percentages[s], fail_threshold)
                  /\ PctLt(sample_percentages[s], warn_threshold)},
     fail |-> {s \in DOMAIN sample_percentages :
                  PctLt(sample_percentages[s], fail_threshold)}]

\* the add_section calls of _add_per_bundle_plots
tractometry_sections(metrics, status_data) ==
    LET sec(anchor, metric_key) ==
            IF DOMAIN metric_plot_data(metrics, metric_key) = {} THEN <<>>
            ELSE <<[anchor |-> anchor, plot |-> metric_plot_data(metrics, metric_key),
                    statuses |-> status_data]>>
    IN  sec("tractometry-fa", "fa") \o sec("tractometry-volume", "volume")
        \o sec("tractometry-streamlines_count", "streamlines_count")

----------------------------------------------------------------------------
(* metricsinroi.py                                                         *)

metricsinroi_parse(acc, f) == reader_file(acc, f, "roi", {"fa"})

RECURSIVE Sum(_)
Sum(values) == IF values = <<>> THEN 0 ELSE Head(values) + Sum(Tail(values))

\* the mean taken over all ROIs of the sample, with or without an FA value
metricsinroi_sample_fa_values_all_rois(samples_rois, roi_metrics) ==
    LET fa_values(s) ==
            Values([roi \in {r \in DOMAIN roi_metrics :
                                s \in DOMAIN roi_metrics[r] /\ "fa" \in DOMAIN roi_metrics[r][s]}
                       |-> roi_metrics[roi][s]["fa"]])
    IN  [s \in {x \in DOMAIN samples_rois : fa_values(x) # <<>>} |->
            [num |-> Sum(fa_values(s)), den |-> Cardinality(samples_rois[s])]]

\* sample_fa_values of __init__: np.mean as the fraction sum / count
metricsinroi_sample_fa_values(samples_rois, roi_metrics) ==
    LET fa_values(s) ==
            Values([roi \in {r \in DOMAIN roi_metrics :
                                s \in DOMAIN roi_metrics[r] /\ "fa" \in DOMAIN roi_metrics[r][s]}
                       |-> roi_metrics[roi][s]["fa"]])
    IN  [s \in {x \in DOMAIN samples_rois : fa_values(x) # <<>>} |->
            [num |-> Sum(fa_values(s)), den |-> Len(fa_values(s))]]

\* roi_fa_values over every parsed sample, the ignored ones included
metricsinroi_roi_fa_unfiltered(samples_rois, roi_metrics, roi) ==
    [s \in {x \in DOMAIN roi_metrics[roi] : "fa" \in DOMAIN roi_metrics[roi][x]}
        |-> roi_metrics[roi][s]["fa"]]

\* roi_fa_values of one ROI, as a dict over roi_samples
metricsinroi_roi_fa(samples_rois, roi_metrics, roi) ==
    [s \in {x \in DOMAIN samples_rois :
               x \in DOMAIN roi_metrics[roi] /\ "fa" \in DOMAIN roi_metrics[roi][x]}
        |-> roi_metrics[roi][s]["fa"]]

\* roi_bounds[roi], times 4
metricsinroi_bounds(roi_fa, iqr_multiplier) ==
    LET values == Values(roi_fa)
        q1 == Percentile4(values, 1)
        q3 == Percentile4(values, 3)
        iqr == q3 - q1
    IN  <<q1 - iqr_multiplier * iqr, q3 + iqr_multiplier * iqr>>

metricsinroi_status_data(samples_rois, roi_metrics, iqr_multiplier) ==
    LET outlier(roi, s) ==
            LET roi_fa == metricsinroi_roi_fa(samples_rois, roi_metrics, roi)
            IN  /\ s \in DOMAIN roi_fa
                /\ LET b == metricsinroi_bounds(roi_fa, iqr_multiplier)
                   IN  4 * roi_fa[s] < b[1] \/ 4 * roi_fa[s] > b[2]
        failed == {s \in DOMAIN samples_rois : \E roi \in DOMAIN roi_metrics : outlier(roi, s)}
    IN  [pass |-> DOMAIN samples_rois \ failed, warn |-> {}, fail |-> failed]

\* the add_section call of _add_per_roi_plots
metricsinroi_sections(roi_metrics, status_data) ==
    IF DOMAIN metric_plot_data(roi_metrics, "fa") = {} THEN <<>>
    ELSE <<[anchor |-> "metricsinroi-fa", plot |-> metric_plot_data(roi_metrics, "fa"),
            statuses |-> status_data]>>

----------------------------------------------------------------------------
(* Default thresholds of cortical.py and subcortical.py                    *)

warn_threshold_cortical == 20

fail_threshold_cortical == 10

warn_threshold_subcortical == 20

fail_threshold_subcortical == 10

----------------------------------------------------------------------------
(* The constructor, MultiqcModule.__init__, as a state machine.            *)

Modules == {"cortical", "subcortical", "coverage", "streamline_count",
            "framewise_displacement", "tractometry", "metricsinroi"}

\* the gated modules, had coverage no gate
HaltsInSingleSubjectButCoverage == {"cortical", "subcortical", "streamline_count",
                                    "tractometry", "metricsinroi"}

\* "if config.kwargs.get("single_subject", False): raise ModuleNoSamplesFound"
\* opens __init__ in these modules
HaltsInSingleSubject == {"cortical", "subcortical", "coverage", "streamline_count",
                         "tractometry", "metricsinroi"}

\* "if len(files) == 0: raise ModuleNoSamplesFound" follows find_log_files
\* in these modules
HaltsWithoutFiles == {"tractometry", "metricsinroi"}

\* the mode gate at the top of __init__
\* bundles.py: the mode gate of the Bundles module, which proceeds only in
\* single-subject mode
bundles_single_subject_mode == single_subject \/ single_subject_report

Gate ==
    /\ pc = "gate"
    /\ pc' = IF module \in HaltsInSingleSubject /\ single_subject
             THEN "raised" ELSE "find"
    /\ UNCHANGED <<module, single_subject, single_subject_report, module_config, sample_names_ignore,
                   config_fp, sp, files, searched, todo, data, bundle_metrics,
                   general_stats, sections, data_files, browser>>

\* self.find_log_files(...)
FindFiles ==
    /\ pc = "find"
    /\ searched' = TRUE
    /\ todo' = files
    /\ pc' = IF module \in HaltsWithoutFiles /\ files = <<>>
             THEN "raised" ELSE "parse"
    /\ UNCHANGED <<module, single_subject, single_subject_report, module_config, sample_names_ignore,
                   config_fp, sp, files, data, bundle_metrics,
                   general_stats, sections, data_files, browser>>

\* the iteration that keeps the entry a name already has
keyed_insert_first(d, parsed, value_key) ==
    IF DOMAIN parsed = {} THEN d
    ELSE d @@ (parsed.sample_name :> parsed[value_key])

\* the dict after one more iteration of "for f in ..."
keyed_insert(d, parsed, value_key) ==
    IF DOMAIN parsed = {} THEN d
    ELSE (parsed.sample_name :> parsed[value_key]) @@ d

\* one iteration of the loop over the found files
ParseFile ==
    /\ pc = "parse"
    /\ todo # <<>>
    /\ LET f == Head(todo)
       IN  CASE module = "cortical" ->
                    /\ data' = cortical_merge(data, parse_cortical_file(f))
                    /\ UNCHANGED bundle_metrics
             [] module = "subcortical" ->
                    /\ data' = subcortical_merge(data, parse_subcortical_file(f))
                    /\ UNCHANGED bundle_metrics
             [] module = "coverage" ->
                    /\ data' = keyed_insert(data, parse_dice_file(f), "dice_value")
                    /\ UNCHANGED bundle_metrics
             [] module = "streamline_count" ->
                    /\ data' = keyed_insert(data, parse_sc_file(f, config_fp), "sc_value")
                    /\ UNCHANGED bundle_metrics
             [] module = "framewise_displacement" ->
                    /\ data' = keyed_insert(data, parse_fd_file(f, config_fp), "values")
                    /\ UNCHANGED bundle_metrics
             [] module = "tractometry" ->
                    LET acc == tractometry_parse([sb |-> data, bm |-> bundle_metrics], f)
                    IN  data' = acc.sb /\ bundle_metrics' = acc.bm
             [] module = "metricsinroi" ->
                    LET acc == metricsinroi_parse([sb |-> data, bm |-> bundle_metrics], f)
                    IN  data' = acc.sb /\ bundle_metrics' = acc.bm
    /\ todo' = Tail(todo)
    /\ UNCHANGED <<module, single_subject, single_subject_report, module_config, sample_names_ignore,
                   config_fp, sp, files, pc, searched,
                   general_stats, sections, data_files, browser>>

\* the filter step without the "len(data) == 0" check
FilterWithoutCheck ==
    /\ pc = "parse"
    /\ todo = <<>>
    /\ data' = ignore_samples(data)
    /\ pc' = "report"
    /\ UNCHANGED <<module, single_subject, single_subject_report, module_config, sample_names_ignore,
                   config_fp, sp, files, searched, todo, bundle_metrics,
                   general_stats, sections, data_files, browser>>

\* "data = self.ignore_samples(data)" and
\* "if len(data) == 0: raise ModuleNoSamplesFound"
Filter ==
    /\ pc = "parse"
    /\ todo = <<>>
    /\ data' = ignore_samples(data)
    /\ pc' = IF DOMAIN data' = {} THEN "raised" ELSE "report"
    /\ UNCHANGED <<module, single_subject, single_subject_report, module_config, sample_names_ignore,
                   config_fp, sp, files, searched, todo, bundle_metrics,
                   general_stats, sections, data_files, browser>>

\* one general_stats_addcols call
Col(name, d) == [col |-> name, data |-> d]

DataFile(name, d) == [fn |-> name, data |-> d]

ReportCortical ==
    LET warn_threshold == Get(module_config, "warn_threshold", warn_threshold_cortical)
        fail_threshold == Get(module_config, "fail_threshold", fail_threshold_cortical)
        sample_percentages == cortical_calculate_outlier_percentages(data)
        status_data == cortical_status_data(sample_percentages, warn_threshold, fail_threshold)
    IN  /\ general_stats' = Append(general_stats, Col("region_pct", sample_percentages))
        /\ sections' = sections \o cortical_sections(data, status_data)
        /\ data_files' = Append(data_files, DataFile("multiqc_cortical_data", data))

ReportSubcortical ==
    LET warn_threshold == Get(module_config, "warn_threshold", warn_threshold_subcortical)
        fail_threshold == Get(module_config, "fail_threshold", fail_threshold_subcortical)
        sample_percentages == subcortical_calculate_outlier_percentages(data)
        status_data ==
            subcortical_status_data(sample_percentages, warn_threshold, fail_threshold)
    IN  /\ general_stats' = Append(general_stats, Col("region_pct", sample_percentages))
        /\ sections' = sections \o subcortical_sections(data, status_data)
        /\ data_files' = Append(data_files, DataFile("multiqc_subcortical_data", data))

\* _add_coverage_stats
\* the last line of the section description, "Pass: >0.9, Warn: 0.8-0.9,
\* Fail: <0.8", a literal of the source
coverage_description == [pass_above |-> 9000, fail_below |-> 8000]

ReportCoverage ==
    LET warn_threshold == Get(module_config, "warn_threshold", warn_threshold_coverage)
        fail_threshold == Get(module_config, "fail_threshold", fail_threshold_coverage)
        status_groups == coverage_status_groups(data, warn_threshold, fail_threshold)
    IN  /\ general_stats' = Append(general_stats, Col("dice_coefficient", data))
        /\ sections' = Append(sections,
               [anchor |-> "coverage_quality",
                description |-> coverage_description,
                plot |-> [s \in DOMAIN data |-> [Dice |-> data[s]]],
                statuses |-> status_groups])
        /\ UNCHANGED data_files

\* _add_streamline_count_stats
ReportStreamlineCount ==
    LET iqr_multiplier == Get(module_config, "iqr_multiplier", iqr_multiplier_default)
        status_groups == sc_status_groups(data, iqr_multiplier)
    IN  /\ general_stats' = Append(general_stats, Col("streamline_count", data))
        /\ sections' = Append(sections,
               [anchor |-> "streamline_count_quality",
                plot |-> [s \in DOMAIN data |-> [StreamlineCount |-> data[s]]],
                statuses |-> status_groups])
        /\ UNCHANGED data_files

\* first_sample = list(fd_data.keys())[0]: a dict keeps insertion order, so
\* this is the sample of the first found file whose sample was retained
fd_first_sample ==
    LET parsed(i) == parse_fd_file(files[i], config_fp)
        kept == {i \in DOMAIN files :
                    /\ DOMAIN parsed(i) # {}
                    /\ parsed(i).sample_name \in DOMAIN data}
        first == CHOOSE i \in kept : \A k \in kept : i <= k
    IN  parsed(first).sample_name

\* the single-subject branch falling through to the multi-subject call
ReportFdSingleFallthrough ==
    LET warn_threshold == Get(module_config, "warn_threshold", warn_threshold_fd)
        fail_threshold == Get(module_config, "fail_threshold", fail_threshold_fd)
        max_fd_values == fd_max_fd_values(data)
        status_groups == fd_status_groups(max_fd_values, warn_threshold, fail_threshold)
    IN  /\ general_stats' = Append(general_stats, Col("max_fd", max_fd_values))
        /\ sections' = sections \o
               <<[anchor |-> "fd_single_subject",
                  plot |-> (fd_first_sample :> data[fd_first_sample]),
                  statuses |-> NoStatuses],
                 [anchor |-> "fd_multi_subject", plot |-> data,
                  statuses |-> status_groups]>>
        /\ UNCHANGED data_files

\* _add_single_subject_plot
ReportFdSingle ==
    /\ sections' = Append(sections,
           [anchor |-> "fd_single_subject",
            plot |-> (fd_first_sample :> data[fd_first_sample]),
            statuses |-> NoStatuses])
    /\ UNCHANGED <<general_stats, data_files>>

\* _add_multi_subject_plots
ReportFdMulti ==
    LET warn_threshold == Get(module_config, "warn_threshold", warn_threshold_fd)
        fail_threshold == Get(module_config, "fail_threshold", fail_threshold_fd)
        max_fd_values == fd_max_fd_values(data)
        status_groups == fd_status_groups(max_fd_values, warn_threshold, fail_threshold)
    IN  /\ general_stats' = Append(general_stats, Col("max_fd", max_fd_values))
        /\ sections' = Append(sections,
               [anchor |-> "fd_multi_subject", plot |-> data,
                statuses |-> status_groups])
        /\ UNCHANGED data_files

ReportTractometry ==
    LET warn_threshold == Get(module_config, "warn_threshold", warn_threshold_tractometry)
        fail_threshold == Get(module_config, "fail_threshold", fail_threshold_tractometry)
        sample_counts == [s \in DOMAIN data |-> Cardinality(data[s])]
        sample_percentages == tractometry_sample_percentages(data, bundle_metrics)
        status_data ==
            tractometry_status_data(sample_percentages, warn_threshold, fail_threshold)
    IN  /\ general_stats' = Append(general_stats, Col("bundle_percentage", sample_percentages))
        /\ sections' = sections \o tractometry_sections(bundle_metrics, status_data)
        /\ data_files' = Append(data_files, DataFile("multiqc_tractometry",
               [sample_counts |-> sample_counts, bundles |-> bundle_metrics]))

ReportMetricsinroi ==
    LET iqr_multiplier == Get(module_config, "iqr_multiplier", iqr_multiplier_default)
        sample_fa_values == metricsinroi_sample_fa_values(data, bundle_metrics)
        status_data == metricsinroi_status_data(data, bundle_metrics, iqr_multiplier)
    IN  /\ general_stats' = Append(general_stats, Col("mean_fa", sample_fa_values))
        /\ sections' = sections \o metricsinroi_sections(bundle_metrics, status_data)
        /\ data_files' = Append(data_files, DataFile("multiqc_metricsinroi",
               [sample_fa_values |-> sample_fa_values, rois |-> bundle_metrics]))

\* the rest of __init__ once samples remain: statistics, sections, data file
Report ==
    /\ pc = "report"
    /\ CASE module = "cortical" -> ReportCortical
         [] module = "subcortical" -> ReportSubcortical
         [] module = "coverage" -> ReportCoverage
         [] module = "streamline_count" -> ReportStreamlineCount
         [] module = "framewise_displacement" ->
                IF single_subject THEN ReportFdSingle ELSE ReportFdMulti
         [] module = "tractometry" -> ReportTractometry
         [] module = "metricsinroi" -> ReportMetricsinroi
    /\ pc' = "done"
    /\ UNCHANGED <<module, single_subject, single_subject_report, module_config, sample_names_ignore,
                   config_fp, sp, files, searched, todo, data, bundle_metrics,
                   browser>>

Next == Gate \/ FindFiles \/ ParseFile \/ Filter \/ Report

----------------------------------------------------------------------------
(* Inputs.  A run is given the host's config and the files the host found. *)

SampleNames == <<"sub-001", "sub-002", "sub-003", "sub-004", "sub-005",
                 "sub-006", "sub-007">>

File(stem, us, rest, s_name, body) ==
    [fn |-> [stem |-> stem, us |-> us, rest |-> rest], s_name |-> s_name, f |-> body]

Pattern(stars, us, rest) == [stars |-> stars, us |-> us, rest |-> rest]

\* config.sp[...]["fn"] as set by neuroimaging_execution_start; modules that
\* do not read it get the empty pattern
DefaultPattern(m) ==
    CASE m = "framewise_displacement" -> Pattern(1, 0, "dwi_eddy_restricted_movement_rms.txt")
      [] m = "streamline_count" -> Pattern(1, 2, "sc.txt")
      [] OTHER -> Pattern(0, 0, "")

\* config.sp[...]["fn"] as a user config file can set it: the default,
\* "*" alone, a pattern without "*", one with more underscores
PatternsOf(m) ==
    {DefaultPattern(m)} \cup
    (IF m \in {"framewise_displacement", "streamline_count"}
     THEN {Pattern(1, 0, ""),
           Pattern(0, 1, DefaultPattern(m).rest),
           Pattern(2, 3, DefaultPattern(m).rest)}
     ELSE {})

\* sequences of at most n elements of S
SeqsUpTo(S, n) == UNION {[1..k -> S] : k \in 0..n}

VolumeFile(body) == File("cortical_Test_volume", 1, "lh.tsv", "Test", body)

\* cortical / subcortical volume tables: empty, header only, two
\* hemispheres, a field that is no number, short and blank lines, a sample
\* listed twice, a region of neither hemisphere, a header without regions,
\* lines with an empty field inside, at the end and at the start
VolumeFiles ==
    {VolumeFile(<<>>),
     VolumeFile(<<<<"Sample", "lh_a">>>>),
     VolumeFile(<<<<"Sample", "lh_a">>, <<"sub-001", "1">>, <<"sub-002", "4">>>>),
     VolumeFile(<<<<"Sample", "rh_a">>, <<"sub-001", "4">>, <<"sub-003", "0">>>>),
     VolumeFile(<<<<"Sample", "lh_a">>, <<"sub-001", "n/a">>>>),
     VolumeFile(<<<<"Sample", "lh_a">>, <<"sub-002">>, <<>>>>),
     VolumeFile(<<<<"Sample", "lh_a", "lh_b">>, <<"sub-002", "9", "1">>, <<"sub-002", "1">>>>),
     VolumeFile(<<<<"Sample", "other">>, <<"sub-003", "1">>>>),
     VolumeFile(<<<<"Sample">>, <<"sub-003", "1">>>>),
     VolumeFile(<<<<"Sample", "lh_a", "lh_b">>,
                  <<"sub-001", "", "4">>,
                  <<"sub-002", "1", "">>,
                  <<"", "sub-003", "9">>>>)}

DiceFile(stem, body) == File(stem, 2, "dice.txt", stem, body)

\* dice files: values around the thresholds, two sessions of one subject,
\* a name without subject id, an empty file, a line that is no number
DiceFiles ==
    {DiceFile("sub-001", <<<<"0.7234">>>>),
     DiceFile("sub-001", <<<<"0.9">>>>),
     DiceFile("sub-002", <<<<"0.8593">>>>),
     DiceFile("sub-002", <<<<"0.8">>, <<"0.95">>>>),
     DiceFile("sub-001_ses-02", <<<<"0.75">>>>),
     DiceFile("ctrl01", <<<<"0.95">>>>),
     DiceFile("sub-003", <<>>),
     DiceFile("sub-003", <<<<"n/a">>>>),
     DiceFile("sub-002", <<<<"0.9", "0.8">>>>)}

\* streamline count files: the default suffix "__sc.txt" with two or three
\* underscores, another suffix, an empty file, a line that is no integer
ScFiles ==
    {File("sub-001", 2, "sc.txt", "sub-001__sc", <<<<"1">>>>),
     File("sub-001", 3, "sc.txt", "sub-001___sc", <<<<"9">>>>),
     File("sub-002", 2, "sc.txt", "sub-002__sc", <<<<"4">>>>),
     File("sub-003", 2, "sc.txt", "sub-003__sc", <<<<"0">>, <<"x">>>>),
     File("sub-002", 1, "sc.txt", "sub-002_sc", <<<<"9">>>>),
     File("sub-003", 2, "count.txt", "sub-003__count", <<<<"4">>>>),
     File("sub-003", 2, "sc.txt", "sub-003__sc", <<>>),
     File("sub-002", 2, "sc.txt", "sub-002__sc", <<<<"0.5">>>>)}

FdFile(stem, body) ==
    File(stem, 2, "dwi_eddy_restricted_movement_rms.txt", stem, body)

\* eddy movement files: maxima around the thresholds, the maximum not on
\* the last line, lines without a second number, an empty file
FdFiles ==
    {FdFile("sub-001", <<<<"0", "0.5">>, <<"0", "0.75">>>>),
     FdFile("sub-001", <<<<"0", "0.8">>>>),
     FdFile("sub-002", <<<<"0", "2.0">>, <<"0", "0.5">>>>),
     FdFile("sub-002", <<<<"0", "2.5">>, <<"0", "n/a">>, <<"0.9">>, <<>>,
                         <<"0", "0.5", "4">>>>),
     FdFile("sub-003", <<<<"n/a", "0.9">>, <<>>, <<"0", "0.5", "4">>>>),
     FdFile("sub-003", <<<<"0", "n/a">>, <<"0.5">>, <<>>>>),
     FdFile("sub-003", <<>>),
     File("sub-003", 0, "rms.txt", "sub-003rms", <<<<"0", "1">>>>)}

StatsFile(body) == File("bundles_mean_stats", 0, ".tsv", "bundles_mean_stats", body)

TractometryHeader == <<"sample", "bundle", "fa", "volume", "streamlines_count">>

\* bundles_mean_stats.tsv tables: empty, header only, samples with all or
\* some of the bundles, empty and non-numeric metric fields, a short row,
\* rows without sample or bundle
TractometryFiles ==
    {StatsFile(<<>>),
     StatsFile(<<TractometryHeader>>),
     StatsFile(<<TractometryHeader,
                 <<"sub-001", "AC", "0.5", "4", "9">>,
                 <<"sub-001", "AF_L", "0.8", "1", "4">>,
                 <<"sub-002", "AC", "0.75", "", "n/a">>>>),
     StatsFile(<<TractometryHeader,
                 <<"sub-002", "AF_L", "0.9", "9", "1">>,
                 <<"sub-003", "CC", "0.5", "1", "1">>>>),
     StatsFile(<<TractometryHeader,
                 <<"sub-001", "AC", "n/a", "", "">>,
                 <<>>,
                 <<"sub-003", "AC">>>>),
     StatsFile(<<TractometryHeader,
                 <<" ", "AC", "0.5", "1", "1">>,
                 <<"sub-002", "", "0.8", "4", "4">>>>),
     StatsFile(<<<<"bundle", "fa">>, <<"AF_L", "0.9">>>>),
     StatsFile(<<TractometryHeader, <<"sub-003", "AC", "0.95", "4", "4">>>>)}

RoiFile(body) == File("rois_mean_stats", 0, ".tsv", "rois_mean_stats", body)

\* rois_mean_stats.tsv tables
MetricsinroiFiles ==
    {RoiFile(<<>>),
     RoiFile(<<<<"sample", "roi", "fa">>>>),
     RoiFile(<<<<"sample", "roi", "fa">>,
               <<"sub-001", "CST", "0.5">>,
               <<"sub-001", "CC", "0.8">>,
               <<"sub-002", "CST", "0.75">>>>),
     RoiFile(<<<<"sample", "roi", "fa">>,
               <<"sub-002", "CC", "0.9">>,
               <<"sub-003", "CST", "0.5">>>>),
     RoiFile(<<<<"sample", "roi", "fa">>,
               <<"sub-001", "CST", "n/a">>,
               <<>>,
               <<"sub-003", "CC">>>>),
     RoiFile(<<<<"sample", "roi", "fa">>,
               <<" ", "CST", "0.5">>,
               <<"sub-002", "", "0.8">>>>),
     RoiFile(<<<<"roi", "fa">>, <<"CC", "0.9">>>>),
     RoiFile(<<<<"sample", "roi", "fa">>, <<"sub-003", "CST", "">>>>),
     RoiFile(<<<<"sample", "roi", "fa">>,
               <<"sub-001", "CST", "0.9">>,
               <<"sub-001", "CST", "0.75">>>>)}

FilesOf(m) ==
    CASE m = "cortical" -> VolumeFiles
      [] m = "subcortical" -> VolumeFiles
      [] m = "coverage" -> DiceFiles
      [] m = "streamline_count" -> ScFiles
      [] m = "framewise_displacement" -> FdFiles
      [] m = "tractometry" -> TractometryFiles
      [] m = "metricsinroi" -> MetricsinroiFiles

\* getattr(config, <module>, {}): absent, customised, customised with the
\* two thresholds in the other order, customised multiplier
ConfigsOf(m) ==
    CASE m \in {"cortical", "subcortical"} ->
             {EmptyDict, [warn_threshold |-> 50, fail_threshold |-> 10],
              [warn_threshold |-> 10, fail_threshold |-> 50],
              [iqr_multiplier |-> 1]}
      [] m = "coverage" ->
             {EmptyDict, [warn_threshold |-> 8500, fail_threshold |-> 7500],
              [warn_threshold |-> 7500, fail_threshold |-> 8500]}
      [] m = "framewise_displacement" ->
             {EmptyDict, [warn_threshold |-> 5000, fail_threshold |-> 9000],
              [warn_threshold |-> 20000, fail_threshold |-> 8000]}
      [] m = "tractometry" ->
             {EmptyDict, [warn_threshold |-> 60, fail_threshold |-> 40],
              [warn_threshold |-> 40, fail_threshold |-> 60]}
      [] m \in {"streamline_count", "metricsinroi"} ->
             {EmptyDict, [iqr_multiplier |-> 1]}

IgnoreLists == {{}, {"sub-001"}}

\* the state when __init__ is entered
\* custom_code.py: the search patterns the plugin registers, in the order
\* of the hook's statements
HookKeys == <<"tractometry", "cortical/volume", "subcortical/volume",
              "framewise_displacement", "coverage", "streamline_count",
              "metricsinroi">>

HookPatterns ==
    <<"*bundles_mean_stats.tsv", "cortical_*_volume_*.tsv",
      "*_subcortical_volumes.tsv", "*dwi_eddy_restricted_movement_rms.txt",
      "*dice.txt", "*__sc.txt", "rois_mean_stats.tsv">>

\* host: config.update_dict(target, source) merges source into target, a
\* dict value into the dict already under the same key
update_dict(target, source) ==
    [k \in DOMAIN target \cup DOMAIN source |->
        IF k \notin DOMAIN source THEN target[k]
        ELSE IF k \notin DOMAIN target THEN source[k]
        ELSE source[k] @@ target[k]]

\* the statement that sets the pattern even when the user has set one
add_default_always(search_patterns, i) ==
    update_dict(search_patterns, HookKeys[i] :> [fn |-> HookPatterns[i]])

\* one "if key not in config.sp: config.update_dict(...)" statement
add_default(search_patterns, i) ==
    IF HookKeys[i] \notin DOMAIN search_patterns
    THEN update_dict(search_patterns, HookKeys[i] :> [fn |-> HookPatterns[i]])
    ELSE search_patterns

\* the statements of the hook from the i-th on
RECURSIVE add_defaults(_, _)
add_defaults(search_patterns, i) ==
    IF i > Len(HookKeys) THEN search_patterns
    ELSE add_defaults(add_default(search_patterns, i), i + 1)

\* bundles.py, the embedded script once it has run: "let nvBundles; let
\* activeBundles = new Set(); let bundlesLoaded = false;", nothing awaited,
\* no event yet
ScriptLoaded ==
    /\ nvBundles = 0
    /\ viewers = <<>>
    /\ visible = EmptyDict
    /\ activeBundles = {}
    /\ bundlesLoaded = FALSE
    /\ buttons = <<>>
    /\ tasks = EmptyDict
    /\ dom_loaded = FALSE
    /\ selections = 0

\* a module is constructed after the hook has run; the report page is
\* opened later
Start ==
    /\ ScriptLoaded
    /\ sp = add_defaults(EmptyDict, 1)
    /\ pc = "gate"
    /\ searched = FALSE
    /\ todo = <<>>
    /\ data = EmptyDict
    /\ bundle_metrics = EmptyDict
    /\ general_stats = <<>>
    /\ sections = <<>>
    /\ data_files = <<>>

\* Outlier inputs: groups of up to MaxGroup values, one per sample, over
\* few distinct numbers, so that quartiles, ties and values on a bound occur
GroupTokens == {"0", "1", "4"}

\* a table of one column: line i is <<SampleNames[i], v[i]>>
GroupRows(v) == [i \in DOMAIN v |-> <<SampleNames[i], v[i]>>]

\* the values of a second column: "1" for every sample but the last, "4"
\* for the last of k samples
SecondColumn == {[i \in 1..k |-> IF i = k THEN "4" ELSE "1"] : k \in {1, MaxGroup}}

\* the columns of up to MaxGroup values listed in increasing or in
\* decreasing order: the order of the rows does not enter the quartiles, and
\* the first sample, the one IgnoreLists can drop, holds the least or the
\* greatest value
GroupColumns ==
    {v \in UNION {[1..n -> GroupTokens] : n \in 1..MaxGroup} :
        \/ \A i \in 1..(Len(v) - 1) : float(v[i]) <= float(v[i + 1])
        \/ \A i \in 1..(Len(v) - 1) : float(v[i]) >= float(v[i + 1])}

\* a left-hemisphere table alone, or followed by a right-hemisphere table
GroupVolumeInputs ==
    LET lh(v) == VolumeFile(<<<<"Sample", "lh_a">>>> \o GroupRows(v))
        rh(w) == VolumeFile(<<<<"Sample", "rh_a">>>> \o GroupRows(w))
    IN  {<<lh(v)>> : v \in GroupColumns}
        \cup {<<lh(v), rh(w)>> : v \in GroupColumns, w \in SecondColumn}

\* one count file per sample
GroupScInputs ==
    {[i \in DOMAIN v |-> File(SampleNames[i], 2, "sc.txt", SampleNames[i], <<<<v[i]>>>>)] :
        v \in GroupColumns}

\* one table with a row per sample for ROI "CST", alone or followed by rows
\* for ROI "CC"
GroupRoiInputs ==
    LET rows(roi, v) == [i \in DOMAIN v |-> <<SampleNames[i], roi, v[i]>>]
        header == <<<<"sample", "roi", "fa">>>>
    IN  {<<RoiFile(header \o rows("CST", v))>> : v \in GroupColumns}
        \cup {<<RoiFile(header \o rows("CST", v) \o rows("CC", w))>> :
                 v \in GroupColumns, w \in SecondColumn}

OutlierModules == {"cortical", "subcortical", "streamline_count", "metricsinroi"}

GroupInputsOf(m) ==
    CASE m \in {"cortical", "subcortical"} -> GroupVolumeInputs
      [] m = "streamline_count" -> GroupScInputs
      [] m = "metricsinroi" -> GroupRoiInputs

\* few files of any shape, under every mode
InitFiles ==
    /\ module \in Modules
    /\ single_subject \in BOOLEAN
    /\ single_subject_report \in BOOLEAN
    /\ module_config \in ConfigsOf(module)
    /\ sample_names_ignore \in IgnoreLists
    /\ config_fp \in PatternsOf(module)
    /\ files \in SeqsUpTo(FilesOf(module), MaxFiles)
    /\ Start

\* well-formed files of many samples, in multi-subject mode
InitGroups ==
    /\ module \in OutlierModules
    /\ single_subject = FALSE
    /\ single_subject_report = FALSE
    /\ module_config \in ConfigsOf(module)
    /\ sample_names_ignore \in IgnoreLists
    /\ config_fp = DefaultPattern(module)
    /\ files \in GroupInputsOf(module)
    /\ Start

\* Bundle inputs: one bundles_mean_stats.tsv in which sub-001 has the first k
\* bundles and sub-002 the first j of them
BundleNames == <<"AC", "AF_L", "AF_R", "CC", "CG_L", "CG_R", "IFOF_L", "IFOF_R",
                 "PYT_L", "PYT_R">>

BundleRows(sample, n) == [i \in 1..n |-> <<sample, BundleNames[i], "0.5", "1", "1">>]

BundleInputs ==
    {<<StatsFile(<<TractometryHeader>> \o BundleRows("sub-001", k)
                 \o BundleRows("sub-002", j))>> :
        k \in 1..MaxBundles, j \in 0..MaxBundles}

\* one table of many bundles, in multi-subject mode
InitBundles ==
    /\ module = "tractometry"
    /\ single_subject = FALSE
    /\ single_subject_report = FALSE
    /\ module_config \in ConfigsOf(module)
    /\ sample_names_ignore \in IgnoreLists
    /\ config_fp = DefaultPattern(module)
    /\ files \in BundleInputs
    /\ Start

Init == InitFiles \/ InitGroups \/ InitBundles

Spec == Init /\ [][Next]_vars

-----------------------------------------------------------------------------
(* The execution_start hook, run by the host on the user's config.sp.      *)

\* config.sp entries a user config file can hold
UserPatterns == {[fn |-> "custom.tsv"], [contents |-> "volume"]}

\* the plugin's keys and a key of another module
SpKeys == {HookKeys[i] : i \in DOMAIN HookKeys} \cup {"fastqc"}

UserSearchPatterns == UNION {[K -> UserPatterns] : K \in SUBSET SpKeys}

InitHook ==
    /\ sp \in UserSearchPatterns
    /\ pc = "start"
    /\ module = "tractometry"
    /\ single_subject = FALSE
    /\ single_subject_report = FALSE
    /\ module_config = EmptyDict
    /\ sample_names_ignore = {}
    /\ config_fp = DefaultPattern(module)
    /\ files = <<>>
    /\ searched = FALSE
    /\ todo = <<>>
    /\ data = EmptyDict
    /\ bundle_metrics = EmptyDict
    /\ general_stats = <<>>
    /\ sections = <<>>
    /\ data_files = <<>>
    /\ ScriptLoaded

\* the host calls the hook, and may call it again
neuroimaging_execution_start ==
    /\ pc \in {"start", "hooked"}
    /\ sp' = add_defaults(sp, 1)
    /\ pc' = IF pc = "start" THEN "hooked" ELSE "rehooked"
    /\ UNCHANGED <<module, single_subject, single_subject_report, module_config, sample_names_ignore,
                   config_fp, files, searched, todo, data, bundle_metrics,
                   general_stats, sections, data_files, browser>>

NextHook == neuroimaging_execution_start

SpecHook == InitHook /\ [][NextHook]_vars

-----------------------------------------------------------------------------
(* bundles.py: the script embedded in the Bundle Visualizations section,   *)
(* run by the browser.  An async function runs until it awaits a promise   *)
(* of the browser or of Niivue; events are handled while it waits.         *)

\* the variables of the report generation, at rest while the page is open
report == <<module, single_subject, single_subject_report, module_config,
            sample_names_ignore, config_fp, sp, files, pc, searched, todo,
            data, bundle_metrics, general_stats, sections, data_files>>

InitViewer ==
    /\ ScriptLoaded
    /\ pc = "page"
    /\ sp = add_defaults(EmptyDict, 1)
    /\ module = "bundles"
    /\ single_subject = TRUE
    /\ single_subject_report = FALSE
    /\ module_config = EmptyDict
    /\ sample_names_ignore = {}
    /\ config_fp = Pattern(0, 0, "")
    /\ files = <<>>
    /\ searched = FALSE
    /\ todo = <<>>
    /\ data = EmptyDict
    /\ bundle_metrics = EmptyDict
    /\ general_stats = <<>>
    /\ sections = <<>>
    /\ data_files = <<>>

\* "nvBundles = new Niivue({...})": the instances after the construction
new_Niivue == Append(viewers, [attached |-> FALSE, meshes |-> <<>>])

\* the ids of the meshes created so far
MeshIds == UNION {Range(viewers[v].meshes) : v \in DOMAIN viewers}

Without(d, k) == [x \in DOMAIN d \ {k} |-> d[x]]

\* initNiivueViewer up to "await nvBundles.attachTo('niivue-canvas')", for
\* the activation t that goes on with left files
initNiivueViewer(t, left) ==
    /\ viewers' = new_Niivue
    /\ nvBundles' = Len(viewers')
    /\ tasks' = (t :> [pc |-> "attachTo", left |-> left, target |-> nvBundles'])
                 @@ tasks

\* window.addEventListener('DOMContentLoaded', initNiivueViewer)
DOMContentLoaded ==
    /\ pc = "page"
    /\ ~dom_loaded
    /\ dom_loaded' = TRUE
    /\ initNiivueViewer(0, 0)
    /\ UNCHANGED <<visible, activeBundles, bundlesLoaded, buttons, selections>>
    /\ UNCHANGED report

\* the change event of #bundle-file-input with n files selected
handleFileSelection ==
    /\ pc = "page"
    /\ selections < MaxSelections
    /\ selections' = selections + 1
    /\ \E n \in 0..MaxSelected :
          IF n = 0
          THEN UNCHANGED <<nvBundles, viewers, tasks>>
          ELSE IF ~bundlesLoaded
          THEN initNiivueViewer(selections', n)
          ELSE \* loadBundlesFromFiles up to "await file.arrayBuffer()"
               /\ tasks' = (selections' :> [pc |-> "arrayBuffer", left |-> n,
                                            target |-> 0]) @@ tasks
               /\ UNCHANGED <<nvBundles, viewers>>
    /\ UNCHANGED <<visible, activeBundles, bundlesLoaded, buttons, dom_loaded>>
    /\ UNCHANGED report

\* attachTo settles: the rest of initNiivueViewer (the catch clause when it
\* rejects), then, in handleFileSelection, loadBundlesFromFiles up to
\* "await file.arrayBuffer()"
attachTo_settled ==
    /\ pc = "page"
    /\ \E t \in DOMAIN tasks : \E fulfilled \in BOOLEAN :
          /\ tasks[t].pc = "attachTo"
          /\ viewers' = IF fulfilled
                        THEN [viewers EXCEPT ![tasks[t].target].attached = TRUE]
                        ELSE viewers
          /\ tasks' = IF tasks[t].left = 0 THEN Without(tasks, t)
                      ELSE [tasks EXCEPT ![t].pc = "arrayBuffer"]
    /\ UNCHANGED <<nvBundles, visible, activeBundles, bundlesLoaded, buttons,
                   dom_loaded, selections>>
    /\ UNCHANGED report

\* createBundleList: a btn-success button for each mesh of nvBundles
createBundleList(all_viewers) ==
    LET meshes == all_viewers[nvBundles].meshes
    IN  [i \in DOMAIN meshes |-> [meshId |-> meshes[i], btn_success |-> TRUE]]

\* file.arrayBuffer() settles: "await nvBundles.loadFromArrayBuffer(...)"
\* is called on the instance nvBundles holds now
arrayBuffer_settled ==
    /\ pc = "page"
    /\ \E t \in DOMAIN tasks :
          /\ tasks[t].pc = "arrayBuffer"
          /\ tasks' = [tasks EXCEPT ![t].pc = "loadFromArrayBuffer",
                                    ![t].target = nvBundles]
    /\ UNCHANGED <<nvBundles, viewers, visible, activeBundles, bundlesLoaded,
                   buttons, dom_loaded, selections>>
    /\ UNCHANGED report

\* loadFromArrayBuffer settles: rejected (the catch clause), or fulfilled
\* with the mesh added to the instance and either the mesh or undefined as
\* its value; then the next file, or the end of loadBundlesFromFiles
loadFromArrayBuffer_settled ==
    /\ pc = "page"
    /\ \E t \in DOMAIN tasks : \E outcome \in {"mesh", "undefined", "rejected"} :
          LET id == Cardinality(MeshIds) + 1
              loaded == outcome # "rejected"
          IN  /\ tasks[t].pc = "loadFromArrayBuffer"
              /\ viewers' =
                     IF loaded
                     THEN [viewers EXCEPT ![tasks[t].target].meshes = Append(@, id)]
                     ELSE viewers
              /\ visible' = IF loaded THEN (id :> TRUE) @@ visible ELSE visible
              /\ activeBundles' = IF outcome = "mesh" THEN activeBundles \cup {id}
                                  ELSE activeBundles
              /\ IF tasks[t].left > 1
                 THEN /\ tasks' = [tasks EXCEPT ![t].pc = "arrayBuffer",
                                                ![t].left = @ - 1]
                      /\ UNCHANGED <<buttons, bundlesLoaded>>
                 ELSE /\ tasks' = Without(tasks, t)
                      /\ buttons' = createBundleList(viewers')
                      /\ bundlesLoaded' = TRUE
    /\ UNCHANGED <<nvBundles, dom_loaded, selections>>
    /\ UNCHANGED report

\* button.onclick of the i-th button of the list; setMeshProperty reaches
\* the meshes of the instance nvBundles holds
button_onclick ==
    /\ pc = "page"
    /\ \E i \in DOMAIN buttons :
          LET id == buttons[i].meshId
              has == id \in activeBundles
              set(v) == IF id \in Range(viewers[nvBundles].meshes)
                        THEN [visible EXCEPT ![id] = v] ELSE visible
          IN  /\ visible' = set(~has)
              /\ activeBundles' = IF has THEN activeBundles \ {id}
                                  ELSE activeBundles \cup {id}
              /\ buttons' = [buttons EXCEPT ![i].btn_success = ~has]
    /\ UNCHANGED <<nvBundles, viewers, bundlesLoaded, tasks, dom_loaded, selections>>
    /\ UNCHANGED report

NextViewer ==
    \/ DOMContentLoaded
    \/ handleFileSelection
    \/ attachTo_settled
    \/ arrayBuffer_settled
    \/ loadFromArrayBuffer_settled
    \/ button_onclick

SpecViewer == InitViewer /\ [][NextViewer]_vars

----------------------------------------------------------------------------
(* Properties.                                                             *)

\* the samples left after ignore_samples, once __init__ is past the filter
Retained == DOMAIN data

Outputs == <<general_stats, sections, data_files>>

NoOutputs == general_stats = <<>> /\ sections = <<>> /\ data_files = <<>>

\* C1: in multi-subject mode, a module of which no sample remains after
\* parsing every found file and filtering the ignored samples raises
\* ModuleNoSamplesFound (it never goes on to report), and when it has
\* raised it has added no general-statistics column, no section and no
\* data file.
C1_NoSamplesRaises ==
    ~single_subject =>
        /\ pc \in {"report", "done"} => Retained # {}
        /\ pc = "raised" => NoOutputs

\* files were found and parsed, yet the module raised
C1_Witness ==
    /\ ~single_subject
    /\ pc = "raised"
    /\ searched
    /\ files # <<>>
    /\ todo = <<>>
    /\ module = "framewise_displacement"

\* C2: with the single-subject flag set, every module but
\* framewise_displacement raises before it searches for or parses a file
\* and adds nothing, whatever files are present.
C2_SingleSubjectHalts ==
    (single_subject /\ module # "framewise_displacement") =>
        /\ pc \in {"gate", "raised"}
        /\ ~searched
        /\ todo = <<>>
        /\ data = EmptyDict
        /\ NoOutputs

C2_Witness ==
    /\ single_subject
    /\ module = "tractometry"
    /\ files # <<>>
    /\ pc = "raised"

\* the groups of a status dict are pairwise disjoint and cover S exactly
PartitionOf(statuses, S) ==
    /\ \A a, b \in DOMAIN statuses : a # b => statuses[a] \cap statuses[b] = {}
    /\ UNION {statuses[a] : a \in DOMAIN statuses} = S

\* C3: the status groups handed to add_section partition the retained
\* samples: each retained sample is in exactly one of pass / warn / fail
\* and no group holds a sample that was not retained.
C3_StatusPartition ==
    \A i \in DOMAIN sections :
        DOMAIN sections[i].statuses # {} =>
            /\ DOMAIN sections[i].statuses \subseteq {"pass", "warn", "fail"}
            /\ PartitionOf(sections[i].statuses, Retained)

\* a section whose three groups are all inhabited
C3_Witness ==
    /\ pc = "done"
    /\ module = "cortical"
    /\ \E i \in DOMAIN sections :
          /\ sections[i].statuses.pass # {}
          /\ sections[i].statuses.warn # {}
          /\ sections[i].statuses.fail # {}

\* the samples named in the outputs of the module
InGeneralStats == UNION {DOMAIN general_stats[i].data : i \in DOMAIN general_stats}

InStatuses ==
    UNION {UNION {sections[i].statuses[g] : g \in DOMAIN sections[i].statuses} :
              i \in DOMAIN sections}

InPlots == UNION {DOMAIN sections[i].plot : i \in DOMAIN sections}

InDataFiles ==
    UNION {LET d == data_files[i].data
           IN  CASE module \in {"cortical", "subcortical"} -> DOMAIN d
                 [] module = "tractometry" ->
                        DOMAIN d.sample_counts
                        \cup UNION {DOMAIN d.bundles[b] : b \in DOMAIN d.bundles}
                 [] module = "metricsinroi" ->
                        DOMAIN d.sample_fa_values
                        \cup UNION {DOMAIN d.rois[b] : b \in DOMAIN d.rois}
                 [] OTHER -> {}
           : i \in DOMAIN data_files}

\* C4: after construction in multi-subject mode, a sample on the ignore
\* list is in none of the outputs (general statistics, status groups, plot
\* data, data file), and every retained sample is in some output.
C4_IgnoredAbsent ==
    (pc = "done" /\ ~single_subject) =>
        /\ \A s \in sample_names_ignore :
              s \notin InGeneralStats \cup InStatuses \cup InPlots \cup InDataFiles
        /\ \A s \in Retained :
              s \in InGeneralStats \cup InStatuses \cup InPlots \cup InDataFiles

\* C5: in cortical and subcortical, region_pct of a retained sample is
\* 100 * (its regions whose volume is strictly below Q1 - 3*IQR or strictly
\* above Q3 + 3*IQR, quartiles over the retained samples having the region)
\* / (distinct regions of the retained samples).
C5_RegionPct ==
    (module \in {"cortical", "subcortical"} /\ pc = "done") =>
        LET regions == UNION {DOMAIN data[s] : s \in Retained}
            vals(r) == Values([s \in {x \in Retained : r \in DOMAIN data[x]} |-> data[s][r]])
            q1(r) == Percentile4(vals(r), 1)
            q3(r) == Percentile4(vals(r), 3)
            outlying(s, r) ==
                \/ 4 * data[s][r] < q1(r) - 3 * (q3(r) - q1(r))
                \/ 4 * data[s][r] > q3(r) + 3 * (q3(r) - q1(r))
        IN  /\ Len(general_stats) = 1
            /\ general_stats[1].col = "region_pct"
            /\ DOMAIN general_stats[1].data = Retained
            /\ \A s \in Retained :
                  LET p == general_stats[1].data[s]
                  IN  p.num * Cardinality(regions)
                      = 100 * Cardinality({r \in DOMAIN data[s] : outlying(s, r)}) * p.den

\* five samples; one has one outlying region of two (50.0), one has none
C5_Witness ==
    /\ module = "cortical"
    /\ pc = "done"
    /\ Cardinality(Retained) >= 5
    /\ \E s, t \in Retained :
          /\ Cardinality(DOMAIN data[s]) = 2
          /\ general_stats[1].data[s] = Pct(1, 2)
          /\ general_stats[1].data[t] = Pct(0, 2)

\* the first half of C6: a region with volumes of fewer than 4 retained
\* samples adds to no sample's outlier count
C6_SmallGroups ==
    (module \in {"cortical", "subcortical"} /\ pc = "done") =>
        LET regions == UNION {DOMAIN data[s] : s \in Retained}
            vals(r) == Values([s \in {x \in Retained : r \in DOMAIN data[x]} |-> data[s][r]])
            q1(r) == Percentile4(vals(r), 1)
            q3(r) == Percentile4(vals(r), 3)
            counted(s, r) ==
                /\ Len(vals(r)) >= 4
                /\ \/ 4 * data[s][r] < q1(r) - 3 * (q3(r) - q1(r))
                   \/ 4 * data[s][r] > q3(r) + 3 * (q3(r) - q1(r))
        IN  \A s \in Retained :
                LET p == general_stats[1].data[s]
                IN  p.num * Cardinality(regions)
                    = 100 * Cardinality({r \in DOMAIN data[s] : counted(s, r)}) * p.den

\* C6 as stated: C6_SmallGroups, and with a single retained sample
\* region_pct is 0.0 and the module adds its general-statistics column and
\* at least one section.
C6_Original ==
    /\ C6_SmallGroups
    /\ (module \in {"cortical", "subcortical"} /\ pc = "done"
        /\ Cardinality(Retained) = 1) =>
           /\ \A s \in Retained : general_stats[1].data[s].num = 0
           /\ Len(general_stats) = 1
           /\ sections # <<>>

\* C6 (amended): C6_SmallGroups, and with a single retained sample
\* region_pct is 0.0 and the general-statistics column is added;
\* subcortical adds its section, cortical adds one section per hemisphere
\* (lh_, rh_) for which the sample has a region, so none when it has no
\* region of either hemisphere.
C6_SingleSample ==
    /\ C6_SmallGroups
    /\ (module \in {"cortical", "subcortical"} /\ pc = "done"
        /\ Cardinality(Retained) = 1) =>
           /\ \A s \in Retained : general_stats[1].data[s].num = 0
           /\ Len(general_stats) = 1
           /\ module = "subcortical" => Len(sections) = 1
           /\ module = "cortical" =>
                 \A s \in Retained :
                     Len(sections) =
                         (IF \E r \in DOMAIN data[s] : startswith_lh(r) THEN 1 ELSE 0)
                         + (IF \E r \in DOMAIN data[s] : startswith_rh(r) THEN 1 ELSE 0)

\* a single sample with regions of both hemispheres: 0.0 and two sections
C6_Witness ==
    /\ module = "cortical"
    /\ pc = "done"
    /\ Cardinality(Retained) = 1
    /\ Len(sections) = 2
    /\ \A s \in Retained : general_stats[1].data[s] = Pct(0, 2)

\* C7: in cortical, subcortical, streamline_count and metricsinroi the
\* outlier bounds are Q1 - k*IQR and Q3 + k*IQR with k the iqr_multiplier
\* of the module's configuration, 3 when it is not set.
C7_ConfigurableMultiplier ==
    (module \in {"cortical", "subcortical", "streamline_count", "metricsinroi"}
     /\ pc = "done") =>
        LET k == Get(module_config, "iqr_multiplier", 3)
            out(v, values) ==
                LET q1 == Percentile4(values, 1)
                    q3 == Percentile4(values, 3)
                IN  4 * v < q1 - k * (q3 - q1) \/ 4 * v > q3 + k * (q3 - q1)
        IN  CASE module \in {"cortical", "subcortical"} ->
                    LET regions == UNION {DOMAIN data[s] : s \in Retained}
                        vals(r) == Values([s \in {x \in Retained : r \in DOMAIN data[x]}
                                              |-> data[s][r]])
                    IN  \A s \in Retained :
                            LET p == general_stats[1].data[s]
                            IN  p.num * Cardinality(regions)
                                = 100 * p.den * Cardinality({r \in DOMAIN data[s] :
                                      Len(vals(r)) >= 4 /\ out(data[s][r], vals(r))})
              [] module = "streamline_count" ->
                    \A i \in DOMAIN sections :
                        sections[i].statuses.fail
                        = {s \in Retained : out(data[s], Values(data))}
              [] module = "metricsinroi" ->
                    LET fa(r) == [s \in {x \in Retained :
                                            /\ x \in DOMAIN bundle_metrics[r]
                                            /\ "fa" \in DOMAIN bundle_metrics[r][x]}
                                     |-> bundle_metrics[r][s]["fa"]]
                    IN  \A i \in DOMAIN sections :
                            sections[i].statuses.fail
                            = {s \in Retained : \E r \in DOMAIN bundle_metrics :
                                  s \in DOMAIN fa(r) /\ out(fa(r)[s], Values(fa(r)))}

\* C8 as stated: with warn and fail from config.coverage (0.9 and 0.8 by
\* default) a retained sample is fail if Dice < fail, warn if
\* fail <= Dice < warn, pass if Dice >= warn.
C8_Original ==
    (module = "coverage" /\ pc = "done") =>
        LET warn == Get(module_config, "warn_threshold", 9000)
            fail == Get(module_config, "fail_threshold", 8000)
        IN  \A i \in DOMAIN sections : \A s \in Retained :
                /\ data[s] < fail => s \in sections[i].statuses.fail
                /\ (fail <= data[s] /\ data[s] < warn) => s \in sections[i].statuses.warn
                /\ data[s] >= warn => s \in sections[i].statuses.pass

\* C8 (amended): fail if Dice < fail, warn if fail <= Dice < warn, pass if
\* Dice >= warn and Dice >= fail; the module adds one section carrying
\* these groups.
C8_CoverageStatus ==
    (module = "coverage" /\ pc = "done") =>
        LET warn == Get(module_config, "warn_threshold", 9000)
            fail == Get(module_config, "fail_threshold", 8000)
        IN  /\ Len(sections) = 1
            /\ \A s \in Retained :
                  /\ data[s] < fail => s \in sections[1].statuses.fail
                  /\ (fail <= data[s] /\ data[s] < warn) => s \in sections[1].statuses.warn
                  /\ (data[s] >= warn /\ data[s] >= fail) => s \in sections[1].statuses.pass

\* warn = 0.85, fail = 0.75: 0.8593 is pass and 0.7234 is fail
C8_Witness ==
    /\ module = "coverage"
    /\ pc = "done"
    /\ module_config = [warn_threshold |-> 8500, fail_threshold |-> 7500]
    /\ \E s, t \in Retained :
          /\ data[s] = 8593 /\ s \in sections[1].statuses.pass
          /\ data[t] = 7234 /\ t \in sections[1].statuses.fail

\* max_fd of every retained sample is the largest of its parsed values
C9_MaxFd ==
    /\ Len(general_stats) = 1
    /\ general_stats[1].col = "max_fd"
    /\ DOMAIN general_stats[1].data = Retained
    /\ \A s \in Retained :
          /\ general_stats[1].data[s] \in Range(data[s])
          /\ \A v \in Range(data[s]) : v <= general_stats[1].data[s]

\* C9 as stated: in multi-subject mode, with warn and fail from
\* config.framewise_displacement (0.8 and 2.0 by default), max_fd is the
\* maximum of the parsed values and the sample is pass if max_fd < warn,
\* warn if warn <= max_fd < fail, fail if max_fd >= fail.
C9_Original ==
    (module = "framewise_displacement" /\ ~single_subject /\ pc = "done") =>
        LET warn == Get(module_config, "warn_threshold", 8000)
            fail == Get(module_config, "fail_threshold", 20000)
        IN  /\ C9_MaxFd
            /\ \A i \in DOMAIN sections : \A s \in Retained :
                  LET max_fd == general_stats[1].data[s]
                  IN  /\ max_fd < warn => s \in sections[i].statuses.pass
                      /\ (warn <= max_fd /\ max_fd < fail) => s \in sections[i].statuses.warn
                      /\ max_fd >= fail => s \in sections[i].statuses.fail

\* C9 (amended): pass if max_fd < warn, warn if warn <= max_fd < fail,
\* fail if max_fd >= fail and max_fd >= warn.
C9_FdStatus ==
    (module = "framewise_displacement" /\ ~single_subject /\ pc = "done") =>
        LET warn == Get(module_config, "warn_threshold", 8000)
            fail == Get(module_config, "fail_threshold", 20000)
        IN  /\ C9_MaxFd
            /\ Len(sections) = 1
            /\ \A s \in Retained :
                  LET max_fd == general_stats[1].data[s]
                  IN  /\ max_fd < warn => s \in sections[1].statuses.pass
                      /\ (warn <= max_fd /\ max_fd < fail) => s \in sections[1].statuses.warn
                      /\ (max_fd >= fail /\ max_fd >= warn) => s \in sections[1].statuses.fail

\* default thresholds: a sample whose maximum 2.0 is not its last value is
\* fail, a sample with maximum 0.8 is warn
C9_Witness ==
    /\ module = "framewise_displacement"
    /\ ~single_subject
    /\ pc = "done"
    /\ module_config = EmptyDict
    /\ \E s, t \in Retained :
          /\ data[s] = <<20000, 5000>> /\ s \in sections[1].statuses.fail
          /\ data[t] = <<8000>> /\ t \in sections[1].statuses.warn

\* what C10 says framewise_displacement has added once __init__ returned
C10_ModeOutputs ==
    IF single_subject
    THEN /\ Len(sections) = 1
         /\ sections[1].anchor = "fd_single_subject"
         /\ DOMAIN sections[1].statuses = {}
         /\ general_stats = <<>>
    ELSE /\ Len(sections) = 1
         /\ sections[1].anchor = "fd_multi_subject"
         /\ DOMAIN sections[1].statuses # {}
         /\ Len(general_stats) = 1
         /\ general_stats[1].col = "max_fd"
         /\ DOMAIN general_stats[1].data = Retained

\* C10 as stated: whenever at least one found file is parsable, the
\* constructor ends having added the outputs of its mode.
C10_Original ==
    (/\ module = "framewise_displacement"
     /\ pc \in {"done", "raised"}
     /\ \E i \in DOMAIN files : DOMAIN parse_fd_file(files[i], config_fp) # {}) =>
        C10_ModeOutputs

\* C10 (amended): whenever at least one found file is parsable and its
\* sample is not on the ignore list, the constructor ends having added the
\* outputs of its mode: one section fd_single_subject without status
\* groups and no general-statistics column with the flag set; one section
\* fd_multi_subject with status groups and a max_fd entry for every
\* retained sample with the flag unset.
C10_FdModes ==
    (/\ module = "framewise_displacement"
     /\ pc \in {"done", "raised"}
     /\ \E i \in DOMAIN files :
           LET parsed == parse_fd_file(files[i], config_fp)
           IN  DOMAIN parsed # {} /\ parsed.sample_name \notin sample_names_ignore) =>
        C10_ModeOutputs

\* single-subject mode with two retained samples: still one section
C10_Witness ==
    /\ module = "framewise_displacement"
    /\ single_subject
    /\ pc = "done"
    /\ Cardinality(Retained) = 2
    /\ sections[1].anchor = "fd_single_subject"

\* the (sample, key) pairs of the data rows of the found tables, key the
\* bundle or ROI name of the row
TableRows(key_column) ==
    UNION {{<<row_sample_name(Head(files[i].f), files[i].f[j], files[i].s_name),
              row_key(Head(files[i].f), files[i].f[j], key_column)>> :
               j \in {k \in 2..Len(files[i].f) : files[i].f[k] # <<>>}} :
           i \in DOMAIN files}

\* C11: in tractometry the bundle_percentage of a retained sample is
\* 100 * (distinct bundle names of the sample's rows) / (distinct bundle
\* names of all parsed rows); it is greater than 0 and at most 100, and 100
\* for a sample that has every bundle.
C11_BundlePercentage ==
    (module = "tractometry" /\ pc = "done") =>
        LET rows == TableRows("bundle")
            all_bundles == {r[2] : r \in rows}
            bundles_of(s) == {r[2] : r \in {x \in rows : x[1] = s}}
        IN  /\ Len(general_stats) = 1
            /\ general_stats[1].col = "bundle_percentage"
            /\ DOMAIN general_stats[1].data = Retained
            /\ Retained = {r[1] : r \in rows} \ sample_names_ignore
            /\ \A s \in Retained :
                  LET p == general_stats[1].data[s]
                  IN  /\ p.num * Cardinality(all_bundles)
                         = 100 * Cardinality(bundles_of(s)) * p.den
                      /\ p.num > 0 /\ p.den > 0
                      /\ p.num <= 100 * p.den
                      /\ bundles_of(s) = all_bundles => p.num = 100 * p.den

\* one sample with 8 of 9 bundles next to one with all 9
C11_Witness ==
    /\ module = "tractometry"
    /\ pc = "done"
    /\ Cardinality(DOMAIN bundle_metrics) = 9
    /\ \E s, t \in Retained :
          /\ general_stats[1].data[s] = Pct(9, 9)
          /\ general_stats[1].data[t] = Pct(8, 9)

\* C12 as stated: in tractometry, with warn and fail from
\* config.tractometry (90 and 80 by default), a retained sample is fail if
\* bundle_percentage < fail, warn if fail <= bundle_percentage < warn, pass
\* if bundle_percentage >= warn.
C12_Original ==
    (module = "tractometry" /\ pc = "done") =>
        LET warn == Get(module_config, "warn_threshold", 90)
            fail == Get(module_config, "fail_threshold", 80)
        IN  \A i \in DOMAIN sections : \A s \in Retained :
                LET pct == general_stats[1].data[s]
                IN  /\ PctLt(pct, fail) => s \in sections[i].statuses.fail
                    /\ (~PctLt(pct, fail) /\ PctLt(pct, warn))
                          => s \in sections[i].statuses.warn
                    /\ ~PctLt(pct, warn) => s \in sections[i].statuses.pass

\* C12 (amended): fail if bundle_percentage < fail, warn if
\* fail <= bundle_percentage < warn, pass if bundle_percentage >= warn and
\* bundle_percentage >= fail; every section carries these groups.
C12_TractometryStatus ==
    (module = "tractometry" /\ pc = "done") =>
        LET warn == Get(module_config, "warn_threshold", 90)
            fail == Get(module_config, "fail_threshold", 80)
        IN  \A i \in DOMAIN sections : \A s \in Retained :
                LET pct == general_stats[1].data[s]
                IN  /\ PctLt(pct, fail) => s \in sections[i].statuses.fail
                    /\ (~PctLt(pct, fail) /\ PctLt(pct, warn))
                          => s \in sections[i].statuses.warn
                    /\ (~PctLt(pct, warn) /\ ~PctLt(pct, fail))
                          => s \in sections[i].statuses.pass

\* default thresholds: 8 of 9 bundles is warn, 9 of 9 is pass
C12_Witness ==
    /\ module = "tractometry"
    /\ pc = "done"
    /\ module_config = EmptyDict
    /\ sections # <<>>
    /\ \E s, t \in Retained :
          /\ general_stats[1].data[s] = Pct(8, 9) /\ s \in sections[1].statuses.warn
          /\ general_stats[1].data[t] = Pct(9, 9) /\ t \in sections[1].statuses.pass

\* C13: in streamline_count, with k from config.streamline_count (3 by
\* default) and Q1, Q3 the quartiles of the retained counts, the fail group
\* is exactly the retained samples whose count is strictly below
\* Q1 - k*IQR or strictly above Q3 + k*IQR, the pass group the other
\* retained samples, no warn is assigned, and a single retained sample is
\* pass.
C13_StreamlineCountStatus ==
    (module = "streamline_count" /\ pc = "done") =>
        LET k == Get(module_config, "iqr_multiplier", 3)
            counts == Values(data)
            q1 == Percentile4(counts, 1)
            q3 == Percentile4(counts, 3)
            outside == {s \in Retained :
                           \/ 4 * data[s] < q1 - k * (q3 - q1)
                           \/ 4 * data[s] > q3 + k * (q3 - q1)}
        IN  /\ Len(sections) = 1
            /\ sections[1].statuses.fail = outside
            /\ sections[1].statuses.pass = Retained \ outside
            /\ \A g \in DOMAIN sections[1].statuses :
                  g = "warn" => sections[1].statuses[g] = {}
            /\ Cardinality(Retained) = 1 => sections[1].statuses.pass = Retained

\* default multiplier, five samples of which the one with count 4 fails
C13_Witness ==
    /\ module = "streamline_count"
    /\ pc = "done"
    /\ module_config = EmptyDict
    /\ Cardinality(Retained) = 5
    /\ Cardinality(sections[1].statuses.fail) = 1
    /\ Cardinality(sections[1].statuses.pass) = 4
    /\ \E s \in sections[1].statuses.fail : data[s] = 4

\* C14: in metricsinroi the fail group is exactly the retained samples
\* whose FA value is, in at least one ROI, strictly outside
\* [Q1 - k*IQR, Q3 + k*IQR], Q1 and Q3 being the quartiles of that ROI's FA
\* values over the retained samples that have one and k the iqr_multiplier
\* of config.metricsinroi (3 by default); the pass group is the other
\* retained samples and the warn group is empty.
C14_RoiStatus ==
    (module = "metricsinroi" /\ pc = "done") =>
        LET k == Get(module_config, "iqr_multiplier", 3)
            has_fa(s, r) == /\ s \in DOMAIN bundle_metrics[r]
                            /\ "fa" \in DOMAIN bundle_metrics[r][s]
            fa(r) == [s \in {x \in Retained : has_fa(x, r)} |-> bundle_metrics[r][s]["fa"]]
            outside(s, r) ==
                LET q1 == Percentile4(Values(fa(r)), 1)
                    q3 == Percentile4(Values(fa(r)), 3)
                IN  \/ 4 * fa(r)[s] < q1 - k * (q3 - q1)
                    \/ 4 * fa(r)[s] > q3 + k * (q3 - q1)
            failing == {s \in Retained :
                           \E r \in DOMAIN bundle_metrics : has_fa(s, r) /\ outside(s, r)}
        IN  \A i \in DOMAIN sections :
                /\ sections[i].statuses.fail = failing
                /\ sections[i].statuses.pass = Retained \ failing
                /\ sections[i].statuses.warn = {}

\* two ROIs, default multiplier: some retained sample fails, others pass
C14_Witness ==
    /\ module = "metricsinroi"
    /\ pc = "done"
    /\ module_config = EmptyDict
    /\ Cardinality(DOMAIN bundle_metrics) = 2
    /\ sections # <<>>
    /\ sections[1].statuses.fail # {}
    /\ sections[1].statuses.pass # {}

\* the rows of the found tables that give sample s a parsable FA value for
\* ROI r, as <<file, line>> positions
FaReads(s, r) ==
    {x \in UNION {{<<i, j>> : j \in 2..Len(files[i].f)} : i \in DOMAIN files} :
        LET fieldnames == Head(files[x[1]].f)
            fields == files[x[1]].f[x[2]]
        IN  /\ fields # <<>>
            /\ row_sample_name(fieldnames, fields, files[x[1]].s_name) = s
            /\ row_key(fieldnames, fields, "roi") = r
            /\ row_has(fieldnames, "fa")
            /\ CanFloat(row_get(fieldnames, fields, "fa"))}

\* the FA value of the last of these rows
LastFa(s, r) ==
    LET x == CHOOSE y \in FaReads(s, r) :
                 \A z \in FaReads(s, r) : z[1] < y[1] \/ (z[1] = y[1] /\ z[2] <= y[2])
    IN  float(row_get(Head(files[x[1]].f), files[x[1]].f[x[2]], "fa"))

\* C15: in metricsinroi the mean_fa of a retained sample is the arithmetic
\* mean of its FA values (the last one read, for an ROI listed twice) over
\* exactly the ROIs for which a parsable FA value was read for it, and a
\* retained sample without any parsable FA value has no mean_fa entry.
C15_MeanFa ==
    (module = "metricsinroi" /\ pc = "done") =>
        LET rois == {r[2] : r \in TableRows("roi")}
            rois_of(s) == {r \in rois : FaReads(s, r) # {}}
            total(s) == Sum(Values([r \in rois_of(s) |-> LastFa(s, r)]))
        IN  /\ Len(general_stats) = 1
            /\ general_stats[1].col = "mean_fa"
            /\ DOMAIN general_stats[1].data = {s \in Retained : rois_of(s) # {}}
            /\ \A s \in DOMAIN general_stats[1].data :
                  LET mean == general_stats[1].data[s]
                  IN  /\ mean.den > 0
                      /\ mean.num * Cardinality(rois_of(s)) = total(s) * mean.den

\* a sample with FA values in two ROIs next to a retained sample with an
\* ROI but no parsable FA value
C15_Witness ==
    /\ module = "metricsinroi"
    /\ pc = "done"
    /\ \E s \in DOMAIN general_stats[1].data :
          general_stats[1].data[s] = [num |-> 13000, den |-> 2]
    /\ \E t \in Retained : t \notin DOMAIN general_stats[1].data

\* C16: malformed rows are skipped: a value field that cannot be parsed as
\* a number contributes no value to the per-sample records.  Every volume
\* of a cortical or subcortical record, and every framewise displacement
\* value of a sample, is the number read from a parsable field of a row of
\* that sample in one of the files.
C16_MalformedSkipped ==
    /\ module \in {"cortical", "subcortical"} =>
          \A s \in DOMAIN data : \A r \in DOMAIN data[s] :
              \E i \in DOMAIN files : \E j \in 2..Len(files[i].f) :
                  LET headers == strip_split(files[i].f[1])
                      fields == strip_split(files[i].f[j])
                  IN  /\ Len(fields) >= 2
                      /\ fields[1] = s
                      /\ \E k \in 2..Min2(Len(headers), Len(fields)) :
                             /\ headers[k] = r
                             /\ CanFloat(fields[k])
                             /\ float(fields[k]) = data[s][r]
    /\ module = "framewise_displacement" =>
          \A s \in DOMAIN data : \A n \in DOMAIN data[s] :
              \E i \in DOMAIN files : \E j \in DOMAIN files[i].f :
                  LET fields == files[i].f[j]
                  IN  /\ Len(fields) >= 2
                      /\ CanFloat(fields[2])
                      /\ float(fields[2]) = data[s][n]

\* C17 as stated: pass if region_pct <= fail_threshold, warn if
\* fail_threshold < region_pct <= warn_threshold, fail if
\* region_pct > warn_threshold.
C17_Original ==
    (module \in {"cortical", "subcortical"} /\ pc = "done") =>
        LET warn == Get(module_config, "warn_threshold", 20)
            fail == Get(module_config, "fail_threshold", 10)
        IN  \A i \in DOMAIN sections : \A s \in Retained :
                LET p == general_stats[1].data[s]
                    statuses == sections[i].statuses
                IN  /\ PctLeq(p, fail) => s \in statuses.pass
                    /\ (~PctLeq(p, fail) /\ PctLeq(p, warn)) => s \in statuses.warn
                    /\ ~PctLeq(p, warn) => s \in statuses.fail

\* C17: in cortical and subcortical, with the thresholds of the module's
\* configuration (defaults fail 10, warn 20), the status groups of every
\* section hold a retained sample as pass if region_pct <= fail_threshold,
\* as warn if fail_threshold < region_pct <= warn_threshold, and as fail if
\* region_pct exceeds both thresholds.
C17_RegionStatus ==
    (module \in {"cortical", "subcortical"} /\ pc = "done") =>
        LET warn == Get(module_config, "warn_threshold", 20)
            fail == Get(module_config, "fail_threshold", 10)
        IN  \A i \in DOMAIN sections : \A s \in Retained :
                LET p == general_stats[1].data[s]
                    statuses == sections[i].statuses
                IN  /\ PctLeq(p, fail) => s \in statuses.pass
                    /\ (~PctLeq(p, fail) /\ PctLeq(p, warn)) => s \in statuses.warn
                    /\ (~PctLeq(p, warn) /\ ~PctLeq(p, fail)) => s \in statuses.fail

\* warn = 50, fail = 10: 50.0 is warn and 0.0 is pass
C17_Witness ==
    /\ module = "subcortical"
    /\ pc = "done"
    /\ module_config = [warn_threshold |-> 50, fail_threshold |-> 10]
    /\ sections # <<>>
    /\ \E s, t \in Retained :
          /\ general_stats[1].data[s] = Pct(1, 2) /\ s \in sections[1].statuses.warn
          /\ general_stats[1].data[t] = Pct(0, 2) /\ t \in sections[1].statuses.pass

\* C18: neuroimaging_execution_start never clobbers a user's search
\* pattern: a plugin key already in config.sp keeps its value, a plugin key
\* absent from it is set to the module's default filename pattern, entries
\* under any other key are unchanged and no other key appears; a second
\* call of the hook changes nothing.
C18_NoClobber ==
    [][/\ DOMAIN sp' = DOMAIN sp \cup {HookKeys[i] : i \in DOMAIN HookKeys}
       /\ \A k \in DOMAIN sp : sp'[k] = sp[k]
       /\ \A i \in DOMAIN HookKeys :
              HookKeys[i] \notin DOMAIN sp =>
                  sp'[HookKeys[i]] = [fn |-> HookPatterns[i]]
       /\ pc = "hooked" => sp' = sp]_vars

\* after two calls: a user's pattern, a default and another module's entry
C18_Witness ==
    /\ pc = "rehooked"
    /\ "fastqc" \in DOMAIN sp
    /\ sp["tractometry"] = [fn |-> "custom.tsv"]
    /\ sp["cortical/volume"] = [contents |-> "volume"]
    /\ sp["coverage"] = [fn |-> "*dice.txt"]
    /\ sp["fastqc"] = [fn |-> "custom.tsv"]

\* the regions a file holds for a sample
FileRegions(i, s) ==
    LET parsed == parse_cortical_file(files[i])
    IN  IF s \in DOMAIN parsed THEN DOMAIN parsed[s] ELSE {}

\* the processing orders of the found files
Orders ==
    {o \in [DOMAIN files -> DOMAIN files] :
        \A i, j \in DOMAIN files : i # j => o[i] # o[j]}

\* the records after the files have been processed in the order o
RECURSIVE MergedIn(_, _)
MergedIn(o, n) ==
    IF n = 0 THEN EmptyDict
    ELSE LET before == MergedIn(o, n - 1)
             parsed == parse_cortical_file(files[o[n]])
         IN  [s \in DOMAIN before \cup DOMAIN parsed |->
                 [r \in (IF s \in DOMAIN before THEN DOMAIN before[s] ELSE {})
                         \cup (IF s \in DOMAIN parsed THEN DOMAIN parsed[s] ELSE {}) |->
                     IF s \in DOMAIN parsed /\ r \in DOMAIN parsed[s]
                     THEN parsed[s][r] ELSE before[s][r]]]

\* C19: in cortical, once the found files have been processed, the record
\* of each sample holds every region that any file has for the sample, and
\* no other; when no (sample, region) pair is in more than one file, the
\* records are those that any processing order of the files gives.
C19_HemisphereMerge ==
    (module = "cortical" /\ pc = "parse" /\ todo = <<>>) =>
        /\ DOMAIN data =
               UNION {DOMAIN parse_cortical_file(files[i]) : i \in DOMAIN files}
        /\ \A s \in DOMAIN data :
               DOMAIN data[s] = UNION {FileRegions(i, s) : i \in DOMAIN files}
        /\ (\A i, j \in DOMAIN files : \A s \in DOMAIN data :
                i # j => FileRegions(i, s) \cap FileRegions(j, s) = {})
               => \A o \in Orders : MergedIn(o, Len(files)) = data

\* sub-001 has lh_a from one file and rh_a from the other
C19_Witness ==
    /\ module = "cortical"
    /\ pc = "parse"
    /\ todo = <<>>
    /\ Len(files) = 2
    /\ FileRegions(1, "sub-001") = {"lh_a"}
    /\ FileRegions(2, "sub-001") = {"rh_a"}
    /\ "sub-001" \in DOMAIN data
    /\ data["sub-001"] = [lh_a |-> 10000, rh_a |-> 40000]

\* a line without any character other than blanks and tabs
BlankLine(fields) == \A i \in DOMAIN fields : fields[i] \in {"", " "}

\* C20: parse_cortical_file and parse_subcortical_file on a file of fewer
\* than 2 lines give an empty result; otherwise the result has one entry
\* per non-blank data line of at least 2 tab-separated fields, keyed by the
\* line's first field; the record of the last line with that key maps the
\* i-th header region name to the numeric value of the line's i-th value
\* field, for every i up to the shorter of the header and the line.
C20_ParseVolumeFile ==
    (/\ module \in {"cortical", "subcortical"}
     /\ Len(files) = 1 /\ pc = "parse" /\ todo = <<>>) =>
        LET lines == files[1].f
            rows == {j \in 2..Len(lines) :
                        ~BlankLine(lines[j]) /\ Len(lines[j]) >= 2}
            last(j) == \A k \in rows : lines[k][1] = lines[j][1] => k <= j
            n(j) == Min2(Len(lines[1]), Len(lines[j]))
        IN  IF Len(lines) < 2 THEN data = EmptyDict
            ELSE /\ DOMAIN data = {lines[j][1] : j \in rows}
                 /\ \A j \in rows : last(j) =>
                        /\ DOMAIN data[lines[j][1]] = {lines[1][i] : i \in 2..n(j)}
                        /\ \A i \in 2..n(j) :
                               (/\ CanFloat(lines[j][i])
                                /\ \A k \in (i + 1)..n(j) : lines[1][k] # lines[1][i])
                               => data[lines[j][1]][lines[1][i]] = float(lines[j][i])

\* the lines of an fd file that carry a value
FdLines(lines) == {j \in DOMAIN lines : Len(lines[j]) >= 2 /\ CanFloat(lines[j][2])}

\* C21: parse_fd_file returns as values exactly the second fields, in file
\* order, of the lines that have at least 2 fields and a numeric second
\* field; the other lines are skipped, and a file without such a line
\* contributes no sample.
C21_FdValues ==
    (/\ module = "framewise_displacement"
     /\ Len(files) = 1 /\ pc = "parse" /\ todo = <<>>) =>
        LET lines == files[1].f
            qual == FdLines(lines)
        IN  IF qual = {} THEN data = EmptyDict
            ELSE \E s \in DOMAIN data :
                    /\ DOMAIN data = {s}
                    /\ Len(data[s]) = Cardinality(qual)
                    /\ \A j \in qual :
                           data[s][Cardinality({k \in qual : k <= j})]
                               = float(lines[j][2])

\* a value after a line with a non-numeric first field, a blank line
\* skipped, a third field unread
C21_Witness ==
    /\ module = "framewise_displacement"
    /\ Len(files) = 1 /\ pc = "parse" /\ todo = <<>>
    /\ files[1].f = <<<<"0", "2.5">>, <<"0", "n/a">>, <<"0.9">>, <<>>, <<"0", "0.5", "4">>>>
    /\ data = ("sub-002" :> <<25000, 5000>>)

\* a file name and a search pattern as the sequences of their parts
NameParts(fn) == <<fn.stem>> \o [i \in 1..fn.us |-> "_"] \o <<fn.rest>>

PatternParts(fp) ==
    [i \in 1..fp.stars |-> "*"] \o [i \in 1..fp.us |-> "_"]
    \o (IF fp.rest = "" THEN <<>> ELSE <<fp.rest>>)

\* t without its leading (trailing) parts equal to c
WithoutLeading(t, c) ==
    LET other == {i \in DOMAIN t : t[i] # c}
    IN  IF other = {} THEN <<>>
        ELSE SubSeq(t, CHOOSE i \in other : \A k \in other : i <= k, Len(t))

WithoutTrailing(t, c) ==
    LET other == {i \in DOMAIN t : t[i] # c}
    IN  IF other = {} THEN <<>>
        ELSE SubSeq(t, 1, CHOOSE i \in other : \A k \in other : i >= k)

EndsWith(t, suffix) ==
    /\ Len(suffix) <= Len(t)
    /\ SubSeq(t, Len(t) - Len(suffix) + 1, Len(t)) = suffix

\* C22: in parse_fd_file and parse_sc_file, when the file name ends with
\* the search pattern stripped of its leading "*" and that suffix is not
\* empty, the sample name is the file name without the suffix and without
\* trailing underscores; in every other case it is the file's s_name.
C22_SampleName ==
    (/\ module \in {"framewise_displacement", "streamline_count"}
     /\ Len(files) = 1 /\ pc = "parse" /\ todo = <<>>
     /\ data # EmptyDict) =>
        LET name == NameParts(files[1].fn)
            suffix == WithoutLeading(PatternParts(config_fp), "*")
        IN  \E n \in DOMAIN data :
               /\ DOMAIN data = {n}
               /\ IF suffix # <<>> /\ EndsWith(name, suffix)
                  THEN <<n>> = WithoutTrailing(
                                  SubSeq(name, 1, Len(name) - Len(suffix)), "_")
                  ELSE n = files[1].s_name

\* sub-001___sc.txt under *__sc.txt: one underscore left after the suffix
C22_Witness ==
    /\ module = "streamline_count"
    /\ Len(files) = 1 /\ pc = "parse" /\ todo = <<>>
    /\ config_fp = Pattern(1, 2, "sc.txt")
    /\ files[1].fn = [stem |-> "sub-001", us |-> 3, rest |-> "sc.txt"]
    /\ files[1].s_name = "sub-001___sc"
    /\ DOMAIN data = {"sub-001"}

\* C23: the Coverage Quality description states "Pass: >0.9, Warn: 0.8-0.9,
\* Fail: <0.8"; under every configuration the status of each retained
\* sample is that of the band of the description its Dice value lies in.
C23_DescriptionBands ==
    (module = "coverage" /\ pc = "done") =>
        \A i \in DOMAIN sections : \A s \in Retained :
            LET d == sections[i].description
                statuses == sections[i].statuses
            IN  /\ data[s] > d.pass_above => s \in statuses.pass
                /\ (d.fail_below <= data[s] /\ data[s] <= d.pass_above)
                       => s \in statuses.warn
                /\ data[s] < d.fail_below => s \in statuses.fail

\* C24: a single-subject report disables the multi-subject modules:
\* whenever the Bundles module treats the run as single-subject, each of
\* cortical, subcortical, coverage, streamline_count, tractometry and
\* metricsinroi raises ModuleNoSamplesFound at its gate, so that none of
\* them is past its gate unless Bundles raises.
C24_SingleSubjectExclusive ==
    (/\ module \in HaltsInSingleSubject
     /\ pc # "gate"
     /\ bundles_single_subject_mode) => (pc = "raised" /\ ~searched)

\* the retained samples all have the one region r, and no other
SingleGroup(r) == \A s \in Retained : DOMAIN data[s] = {r}

\* C25: cortical and subcortical share their parsing and outlier logic:
\* parse_cortical_file and parse_subcortical_file agree on every file, the
\* two _calculate_outlier_percentages agree on every per-sample region map,
\* and for a single group of values the samples counted as outliers are
\* those streamline_count marks fail with multiplier 3, for every number
\* of samples.
C25_SameLogic ==
    module \in {"cortical", "subcortical"} =>
        /\ \A i \in DOMAIN files :
               parse_cortical_file(files[i]) = parse_subcortical_file(files[i])
        /\ (Len(files) = 1 /\ pc = "parse" /\ todo = <<>>) =>
               /\ data = parse_cortical_file(files[1])
               /\ data = parse_subcortical_file(files[1])
        /\ pc = "done" =>
               /\ general_stats[1].data = cortical_calculate_outlier_percentages(data)
               /\ general_stats[1].data = subcortical_calculate_outlier_percentages(data)
               /\ \A r \in UNION {DOMAIN data[s] : s \in Retained} :
                      SingleGroup(r) =>
                          {s \in Retained : ~PctLeq(general_stats[1].data[s], 0)}
                              = sc_status_groups([s \in Retained |-> data[s][r]], 3).fail

\* five samples of one region, the last one an outlier in both routines
C25_Witness ==
    /\ module = "subcortical"
    /\ pc = "done"
    /\ Cardinality(Retained) = 5
    /\ SingleGroup("lh_a")
    /\ {s \in Retained : ~PctLeq(general_stats[1].data[s], 0)} = {"sub-005"}
    /\ sc_status_groups([s \in Retained |-> data[s]["lh_a"]], 3).fail = {"sub-005"}
    /\ general_stats[1].data = cortical_calculate_outlier_percentages(data)

\* a table without the data rows of the samples on the ignore list
WithoutIgnoredRows(f) ==
    IF f.f = <<>> THEN f
    ELSE LET kept(fields) ==
                 \/ fields = <<>>
                 \/ row_sample_name(Head(f.f), fields, f.s_name) \notin sample_names_ignore
         IN  [f EXCEPT !.f = <<Head(f.f)>> \o SelectSeq(Tail(f.f), kept)]

\* samples_bundles and bundle_metrics after the tables fs
RECURSIVE TractometryTables(_, _)
TractometryTables(fs, acc) ==
    IF fs = <<>> THEN acc
    ELSE TractometryTables(Tail(fs), tractometry_parse(acc, Head(fs)))

\* C26: ignored samples do not influence the results of the retained
\* samples in tractometry: every retained sample has the bundle_percentage,
\* and with it the status, that the run on the input without the rows of
\* the ignored samples gives it; a bundle that occurs only in ignored
\* samples does not count towards the total number of bundles.
C26_IgnoredNoInfluence ==
    (module = "tractometry" /\ pc = "done") =>
        LET other == TractometryTables(
                         [i \in DOMAIN files |-> WithoutIgnoredRows(files[i])],
                         [sb |-> EmptyDict, bm |-> EmptyDict])
            percentages ==
                tractometry_sample_percentages(ignore_samples(other.sb), other.bm)
        IN  /\ DOMAIN percentages = Retained
            /\ \A s \in Retained :
                   PctEq(general_stats[1].data[s], percentages[s])

\* what the parser of the module returns for the i-th found file, as
\* [sample_name, value], or the empty dict
ParsedKeyed(i) ==
    CASE module = "coverage" ->
             LET p == parse_dice_file(files[i])
             IN  IF DOMAIN p = {} THEN p
                 ELSE [sample_name |-> p.sample_name, value |-> p.dice_value]
      [] module = "streamline_count" ->
             LET p == parse_sc_file(files[i], config_fp)
             IN  IF DOMAIN p = {} THEN p
                 ELSE [sample_name |-> p.sample_name, value |-> p.sc_value]
      [] module = "framewise_displacement" ->
             LET p == parse_fd_file(files[i], config_fp)
             IN  IF DOMAIN p = {} THEN p
                 ELSE [sample_name |-> p.sample_name, value |-> p.values]

\* C27: in coverage, framewise_displacement and streamline_count the
\* files are folded into a map keyed by derived sample name: after the
\* found files have been processed the entries are the distinct derived
\* names of the parsable files, not the files, and each entry holds the
\* value of the last file, in processing order, that derived its name; in
\* coverage the name is the first "sub-" match of the file name.
C27_KeyedFold ==
    (/\ module \in {"coverage", "framewise_displacement", "streamline_count"}
     /\ pc = "parse" /\ todo = <<>>) =>
        LET parsable == {i \in DOMAIN files : DOMAIN ParsedKeyed(i) # {}}
            names == {ParsedKeyed(i).sample_name : i \in parsable}
            last(n) == CHOOSE i \in parsable :
                          /\ ParsedKeyed(i).sample_name = n
                          /\ \A k \in parsable :
                                 ParsedKeyed(k).sample_name = n => k <= i
        IN  /\ DOMAIN data = names
            /\ Cardinality(DOMAIN data) = Cardinality(names)
            /\ \A n \in names : data[n] = ParsedKeyed(last(n)).value
            /\ module = "coverage" =>
                   \A i \in parsable :
                       SubjectMatch[files[i].fn.stem] # "" =>
                           SubjectMatch[files[i].fn.stem] \in DOMAIN data

\* two sessions of sub-001: one entry, with the value of the second file
C27_Witness ==
    /\ module = "coverage"
    /\ pc = "parse" /\ todo = <<>>
    /\ Len(files) = 2
    /\ files[1].fn.stem = "sub-001" /\ files[1].f = <<<<"0.7234">>>>
    /\ files[2].fn.stem = "sub-001_ses-02" /\ files[2].f = <<<<"0.75">>>>
    /\ data = ("sub-001" :> 7500)

\* C28: in streamline_count with the default multiplier 3 every sample of
\* at most 4 retained samples is pass, whatever the counts: no count lies
\* strictly outside [Q1 - 3*IQR, Q3 + 3*IQR] when Q1 and Q3 are the
\* linearly interpolated quartiles of at most 4 values.
C28_SmallGroupsPass ==
    (/\ module = "streamline_count" /\ pc = "done"
     /\ Get(module_config, "iqr_multiplier", 3) = 3
     /\ Cardinality(Retained) <= 4) =>
        /\ sections[1].statuses.fail = {}
        /\ sections[1].statuses.pass = Retained

\* four samples with the counts 1, 1, 1 and 4: the upper bound is 4
C28_Witness ==
    /\ module = "streamline_count" /\ pc = "done"
    /\ module_config = EmptyDict
    /\ Cardinality(Retained) = 4
    /\ Cardinality({s \in Retained : data[s] = 1}) = 3
    /\ Cardinality({s \in Retained : data[s] = 4}) = 1
    /\ sections[1].statuses.fail = {}
    /\ sc_bounds(data, 3)[2] = 16

\* C29: in the viewer script, over every interleaving of DOMContentLoaded
\* and file selections, a Niivue viewer is constructed and attached to the
\* canvas at most once, and loadBundlesFromFiles never runs before a viewer
\* instance exists.
C29_ViewerOnce ==
    pc = "page" =>
        /\ Len(viewers) <= 1
        /\ Cardinality({v \in DOMAIN viewers : viewers[v].attached}) <= 1
        /\ \A t \in DOMAIN tasks :
               tasks[t].pc \in {"arrayBuffer", "loadFromArrayBuffer"} => nvBundles # 0

\* C30: in the viewer script, once the selections are loaded, for each
\* mesh of the list the button shows btn-success if and only if the mesh
\* id is in activeBundles if and only if the mesh is visible.
C30_ViewsAgree ==
    (pc = "page" /\ DOMAIN tasks = {}) =>
        \A i \in DOMAIN buttons :
            LET id == buttons[i].meshId
            IN  /\ buttons[i].btn_success <=> id \in activeBundles
                /\ id \in activeBundles <=> visible[id]

====
